---------------------------- MODULE Spec2Model ----------------------------
(***************************************************************************)
(* Model of the question-answering core of graphrag-eu-regulations:        *)
(*   app/services/answering.py      answer_question, generate_answer,      *)
(*                                  query_with_retry, map_citations,       *)
(*                                  validate_answer, extract_citations     *)
(*   app/services/orchestration.py  the LangGraph state machine            *)
(*   app/services/actions.py        search_items, get_valid_version,       *)
(*                                  search_text_units, resolve_temporal_   *)
(*                                  scope                                  *)
(*   app/services/refusal.py        classify_request                       *)
(*                                                                         *)
(* Text is a sequence of tokens.  The punctuation the regular expressions  *)
(* of the code look at ("[", "]", ",", a space "sp", a newline "nl", the   *)
(* decimal digits) are one token per character; a paragraph id, a word and *)
(* the fixed messages are one token each.                                  *)
(***************************************************************************)
EXTENDS Integers, Sequences, FiniteSets, TLC

VARIABLES
    api,            \* which produced interface runs: "answer", "orchestrated",
                    \* or one of the function harnesses "validate", "version"
    question,       \* the request: the raw question (token sequence)
    as_of_date,     \* the request: the as-of date expression (a date string)
    top_k,          \* the request: top_k
    item_limit,     \* the request: item_limit
    credentials,    \* configuration: TRUE iff an OpenAI api key is configured
    store,          \* the graph store the request runs against (read-only)
    pc,             \* position of the request in its code
    st,             \* RegulatoryState / the locals of answer_question
    llm,            \* the generation adapter: attempt of query_with_retry, calls made
    calls,          \* number of calls made to each external collaborator
    visits,         \* history: number of entries into each orchestrator node
    outcome,        \* what the caller got: running, returned(response), raised(error)
    fin,            \* input of a function harness
    fout            \* result of a function harness

vars == <<api, question, as_of_date, top_k, item_limit, credentials, store,
          pc, st, llm, calls, visits, outcome, fin, fout>>

----------------------------------------------------------------------------
(* Bounds of the model *)

\* longest text, in tokens, drawn for the text-function harness
MaxTextLen == 4

\* longest generation output, in chunks of LlmChunks
MaxChunks == 3

----------------------------------------------------------------------------
(* Text *)

\* answering.py:18
INSUFFICIENT_MESSAGE == <<"Insufficient information from available sources.">>

\* refusal.py:4
REFUSAL_MESSAGE == <<"I can't provide legal or financial advice. I can summarize relevant rules with citations if you want.">>

Digits == {"0", "1", "2", "3"}

DigitVal(t) == CASE t = "0" -> 0 [] t = "1" -> 1 [] t = "2" -> 2 [] t = "3" -> 3

\* str.strip() / the regex class \s: the whitespace characters
IsSpace(t) == t \in {"sp", "nl"}

RECURSIVE LStrip(_)
LStrip(s) == IF s # <<>> /\ IsSpace(Head(s)) THEN LStrip(Tail(s)) ELSE s

RECURSIVE RStrip(_)
RStrip(s) ==
    IF s # <<>> /\ IsSpace(s[Len(s)]) THEN RStrip(SubSeq(s, 1, Len(s) - 1)) ELSE s

\* str.strip()
Strip(s) == RStrip(LStrip(s))

\* str.split(sep) for a one-token separator
RECURSIVE SplitOn(_, _)
SplitOn(s, sep) ==
    IF \E i \in 1..Len(s) : s[i] = sep
    THEN LET i == CHOOSE k \in 1..Len(s) :
                      s[k] = sep /\ \A m \in 1..(k - 1) : s[m] # sep
         IN  <<SubSeq(s, 1, i - 1)>> \o SplitOn(SubSeq(s, i + 1, Len(s)), sep)
    ELSE <<s>>

\* str.split("\n\n"): leftmost, non-overlapping occurrences of two newlines
RECURSIVE SplitBlank(_)
SplitBlank(s) ==
    IF \E i \in 1..(Len(s) - 1) : s[i] = "nl" /\ s[i + 1] = "nl"
    THEN LET i == CHOOSE k \in 1..(Len(s) - 1) :
                      /\ s[k] = "nl" /\ s[k + 1] = "nl"
                      /\ \A m \in 1..(k - 1) : ~(s[m] = "nl" /\ s[m + 1] = "nl")
         IN  <<SubSeq(s, 1, i - 1)>> \o SplitBlank(SubSeq(s, i + 2, Len(s)))
    ELSE <<s>>

\* [x.strip() for x in xs if x.strip()]
RECURSIVE StripNonEmpty(_)
StripNonEmpty(xs) ==
    IF xs = <<>> THEN <<>>
    ELSE (IF Strip(Head(xs)) # <<>> THEN <<Strip(Head(xs))>> ELSE <<>>)
         \o StripNonEmpty(Tail(xs))

\* the elements of xs that are in S, in order
RECURSIVE FilterIn(_, _)
FilterIn(xs, S) ==
    IF xs = <<>> THEN <<>>
    ELSE (IF Head(xs) \in S THEN <<Head(xs)>> ELSE <<>>) \o FilterIn(Tail(xs), S)

SeqRange(xs) == {xs[i] : i \in 1..Len(xs)}

\* index of the first "]" at or after i, 0 when there is none
FirstClose(text, i) ==
    IF \E k \in i..Len(text) : text[k] = "]"
    THEN CHOOSE k \in i..Len(text) :
             text[k] = "]" /\ \A m \in i..(k - 1) : text[m] # "]"
    ELSE 0

\* extract_citations: re.finditer(r"\[([^\]]+)\]", text) from position i on;
\* each citation is the stripped text between two commas of a group
RECURSIVE ExtractFrom(_, _)
ExtractFrom(text, i) ==
    IF i > Len(text) THEN <<>>
    ELSE IF text[i] = "[" /\ FirstClose(text, i + 1) > i + 1
         THEN LET e == FirstClose(text, i + 1)
              IN  StripNonEmpty(SplitOn(SubSeq(text, i + 1, e - 1), ","))
                  \o ExtractFrom(text, e + 1)
         ELSE ExtractFrom(text, i + 1)

extract_citations(text) == ExtractFrom(text, 1)

\* `citation in retrieved_ids`: a citation is a string; it is a retrieved id
\* only when it is that id's single token
CitationIds(ids) == {<<p>> : p \in ids}

\* [c for c in extract_citations(text) if c in ids], as id strings
RECURSIVE Unwrap(_)
Unwrap(cs) == IF cs = <<>> THEN <<>> ELSE <<Head(cs)[1]>> \o Unwrap(Tail(cs))

CitedIn(text, ids) == Unwrap(FilterIn(extract_citations(text), CitationIds(ids)))

\* validate_answer without the second loop of the code (answering.py:228-230)
validate_answer_no_foreign_check(answer_text, retrieved_ids) ==
    LET paragraphs == StripNonEmpty(SplitBlank(answer_text))
    IN  /\ paragraphs # <<>>
        /\ \A n \in 1..Len(paragraphs) :
               FilterIn(extract_citations(paragraphs[n]), CitationIds(retrieved_ids)) # <<>>

\* validate_answer accepting a text as soon as one paragraph is well cited
validate_answer_any_paragraph(answer_text, retrieved_ids) ==
    LET paragraphs == StripNonEmpty(SplitBlank(answer_text))
    IN  \E n \in 1..Len(paragraphs) :
            /\ extract_citations(paragraphs[n]) # <<>>
            /\ SeqRange(extract_citations(paragraphs[n])) \subseteq CitationIds(retrieved_ids)

\* validate_answer (answering.py:220-231)
validate_answer(answer_text, retrieved_ids) ==
    LET paragraphs == StripNonEmpty(SplitBlank(answer_text))
    IN  IF paragraphs = <<>> THEN FALSE
        ELSE \A n \in 1..Len(paragraphs) :
                 LET citations == FilterIn(extract_citations(paragraphs[n]),
                                           CitationIds(retrieved_ids))
                 IN  /\ citations # <<>>
                     /\ \A c \in SeqRange(extract_citations(paragraphs[n])) :
                            c \in CitationIds(retrieved_ids)

----------------------------------------------------------------------------
(* map_citations *)

\* index of the last token of the run of digits starting at i (i - 1 when
\* text[i] is no digit): the regex \d+
RECURSIVE DigitsEnd(_, _)
DigitsEnd(text, i) ==
    IF i <= Len(text) /\ text[i] \in Digits THEN DigitsEnd(text, i + 1) ELSE i - 1

\* first index at or after i that holds no whitespace: the regex \s*
RECURSIVE WsEnd(_, _)
WsEnd(text, i) ==
    IF i <= Len(text) /\ IsSpace(text[i]) THEN WsEnd(text, i + 1) ELSE i

\* (?:\s*,\s*\d+)*\] after a run of digits ending at j: the index of the
\* closing bracket, 0 when the group does not match
RECURSIVE MarkerTail(_, _)
MarkerTail(text, j) ==
    IF j + 1 <= Len(text) /\ text[j + 1] = "]" THEN j + 1
    ELSE LET k == WsEnd(text, j + 1)
         IN  IF k <= Len(text) /\ text[k] = ","
             THEN LET d == WsEnd(text, k + 1)
                      e == DigitsEnd(text, d)
                  IN  IF e >= d THEN MarkerTail(text, e) ELSE 0
             ELSE 0

\* CITATION_RE (answering.py:19) matched at position i: the index of the
\* closing bracket, 0 when there is no match at i
MarkerEnd(text, i) ==
    IF i <= Len(text) /\ text[i] = "[" /\ DigitsEnd(text, i + 1) >= i + 1
    THEN MarkerTail(text, DigitsEnd(text, i + 1))
    ELSE 0

\* int(value) of a run of digits
RECURSIVE IntOf(_)
IntOf(ds) ==
    IF ds = <<>> THEN 0 ELSE 10 * IntOf(SubSeq(ds, 1, Len(ds) - 1)) + DigitVal(ds[Len(ds)])

\* [int(v) for v in re.findall(r"\d+", group)]
RECURSIVE Numbers(_, _)
Numbers(text, i) ==
    IF i > Len(text) THEN <<>>
    ELSE IF text[i] \in Digits
         THEN <<IntOf(SubSeq(text, i, DigitsEnd(text, i)))>>
              \o Numbers(text, DigitsEnd(text, i) + 1)
         ELSE Numbers(text, i + 1)

\* "[" + ", ".join(paragraph_ids) + "]" without the brackets
RECURSIVE JoinIds(_)
JoinIds(ids) ==
    IF ids = <<>> THEN <<>>
    ELSE IF Len(ids) = 1 THEN <<ids[1]>>
         ELSE <<ids[1], ",", "sp">> \o JoinIds(Tail(ids))

\* replace(match) of map_citations (answering.py:204-214): the replacement
\* text and whether the group set the invalid flag; citation_map is the
\* 1-based table index -> paragraph_id of source_nodes
Replace(group, source_ids) ==
    LET numbers == Numbers(group, 1)
    IN  IF \E n \in 1..Len(numbers) : numbers[n] \notin 1..Len(source_ids)
        THEN [text |-> group, invalid |-> TRUE]
        ELSE [text |-> <<"[">> \o JoinIds([n \in 1..Len(numbers) |-> source_ids[numbers[n]]])
                       \o <<"]">>,
              invalid |-> FALSE]

\* CITATION_RE.sub(replace, answer_text) from position i on
RECURSIVE SubFrom(_, _, _)
SubFrom(text, i, source_ids) ==
    IF i > Len(text) THEN [text |-> <<>>, invalid |-> FALSE]
    ELSE IF MarkerEnd(text, i) > 0
         THEN LET e == MarkerEnd(text, i)
                  r == Replace(SubSeq(text, i, e), source_ids)
                  rest == SubFrom(text, e + 1, source_ids)
              IN  [text |-> r.text \o rest.text, invalid |-> r.invalid \/ rest.invalid]
         ELSE LET rest == SubFrom(text, i + 1, source_ids)
              IN  [text |-> <<text[i]>> \o rest.text, invalid |-> rest.invalid]

\* map_citations (answering.py:194-217); source_ids are the paragraph ids of
\* response.source_nodes in order
map_citations(answer_text, source_ids) ==
    IF source_ids = <<>> THEN [text |-> answer_text, invalid |-> TRUE]
    ELSE SubFrom(answer_text, 1, source_ids)

----------------------------------------------------------------------------
(* Dates *)

(* A date string is a record:                                              *)
(*   [form |-> "ymd", yw, y, m, d]  <y written with yw digits>-<mm>-<dd>   *)
(*   [form |-> "year", yw, y]       y written with yw digits, nothing else *)
(*   [form |-> "word", w]           any other text                         *)
(* A date value is <<y, m, d>>; NULL is the store's null.                  *)
NULL == <<>>

YmdStr(yw, y, m, d) == [form |-> "ymd", yw |-> yw, y |-> y, m |-> m, d |-> d]
YearStr(yw, y) == [form |-> "year", yw |-> yw, y |-> y]
WordStr(w) == [form |-> "word", w |-> w]

IsLeap(y) == (y % 4 = 0 /\ y % 100 # 0) \/ y % 400 = 0

DaysIn(y, m) ==
    IF m = 2 THEN (IF IsLeap(y) THEN 29 ELSE 28)
    ELSE IF m \in {4, 6, 9, 11} THEN 30 ELSE 31

\* number of characters of str(int): f"{year}" pads nothing
Width(n) == IF n < 10 THEN 1 ELSE IF n < 100 THEN 2 ELSE IF n < 1000 THEN 3 ELSE 4

\* date.fromisoformat(s) succeeds: YYYY-MM-DD naming a day of the calendar
\* (datetime.MINYEAR = 1)
IsIsoDate(s) ==
    /\ s.form = "ymd"
    /\ s.yw = 4
    /\ s.y \in 1..9999
    /\ s.m \in 1..12
    /\ s.d \in 1..DaysIn(s.y, s.m)

\* date.fromisoformat(s), for IsIsoDate(s)
FromIso(s) == <<s.y, s.m, s.d>>

\* date.isoformat(): always four year digits
IsoFormat(dt) == YmdStr(4, dt[1], dt[2], dt[3])

\* d1 <= d2 on date values
DateLE(d1, d2) ==
    \/ d1[1] < d2[1]
    \/ d1[1] = d2[1] /\ d1[2] < d2[2]
    \/ d1[1] = d2[1] /\ d1[2] = d2[2] /\ d1[3] <= d2[3]

\* date.today() of the run
Today == <<2024, 6, 15>>

\* resolve_temporal_scope passing on, as a date, a text it does not know
resolve_temporal_scope_lenient(s) ==
    IF s.form = "word" /\ s.w = "current"
    THEN [ok |-> TRUE, type |-> "date", date |-> IsoFormat(Today)]
    ELSE IF s.form = "year" /\ s.yw = 4
    THEN [ok |-> TRUE, type |-> "interval",
          start |-> YmdStr(Width(s.y), s.y, 1, 1),
          end |-> YmdStr(Width(s.y), s.y, 12, 31)]
    ELSE [ok |-> TRUE, type |-> "date", date |-> s]

\* resolve_temporal_scope (actions.py:59-73)
resolve_temporal_scope(s) ==
    IF s.form = "word" /\ s.w = "current"
    THEN [ok |-> TRUE, type |-> "date", date |-> IsoFormat(Today)]
    ELSE IF s.form = "word" /\ s.w = "last year"
    THEN [ok |-> TRUE, type |-> "interval",
          start |-> YmdStr(Width(Today[1] - 1), Today[1] - 1, 1, 1),
          end |-> YmdStr(Width(Today[1] - 1), Today[1] - 1, 12, 31)]
    ELSE IF s.form = "year" /\ s.yw = 4
    THEN [ok |-> TRUE, type |-> "interval",
          start |-> YmdStr(Width(s.y), s.y, 1, 1),
          end |-> YmdStr(Width(s.y), s.y, 12, 31)]
    ELSE IF s.form = "ymd" /\ s.yw = 4
    THEN (IF IsIsoDate(s)
          THEN [ok |-> TRUE, type |-> "date", date |-> IsoFormat(FromIso(s))]
          ELSE [ok |-> FALSE, error |-> "ValueError"])
    ELSE [ok |-> FALSE, error |-> "unsupported_date_format"]

----------------------------------------------------------------------------
(* The graph store and get_valid_version *)

(* store.expressions : set of [expression_id, work_id, valid_from, valid_to] *)
(* store.articles    : set of [article_id, expression_id]                    *)
(* store.paragraphs  : set of [paragraph_id, article_id, score, keyword]     *)
(* store.ranked      : rows of the candidate query for the request's         *)
(*                     question, already ordered, before LIMIT               *)

\* a reference string: "urn:<kind>:<id>", or any other text (then id is the
\* whole text)
UrnRef(kind, id) == [form |-> "urn", kind |-> kind, id |-> id]
PlainRef(id) == [form |-> "plain", kind |-> "", id |-> id]

\* parse_component_id (actions.py:195-200)
parse_component_id(ref) ==
    IF ref.form = "urn" THEN <<ref.kind, ref.id>> ELSE <<"work", ref.id>>

\* the MATCH clause of build_valid_version_query (actions.py:204-212): the
\* Expression nodes reached from the identifier
MatchRoot(s, kind, identifier) ==
    CASE kind = "expression" ->
            {e \in s.expressions : e.expression_id = identifier}
      [] kind = "article" ->
            {e \in s.expressions :
                \E a \in s.articles :
                    a.article_id = identifier /\ a.expression_id = e.expression_id}
      [] kind = "paragraph" ->
            {e \in s.expressions :
                \E p \in s.paragraphs, a \in s.articles :
                    /\ p.paragraph_id = identifier
                    /\ p.article_id = a.article_id
                    /\ a.expression_id = e.expression_id}
      [] OTHER ->
            {e \in s.expressions : e.work_id = identifier}

\* the WHERE clause without the upper bound valid_to >= date
ContainsDateOpenEnded(e, dt) == DateLE(e.valid_from, dt)

\* the WHERE clause of build_valid_version_query (actions.py:215-216)
ContainsDate(e, dt) ==
    /\ DateLE(e.valid_from, dt)
    /\ (e.valid_to = NULL \/ DateLE(dt, e.valid_to))

\* session.run(query, ...).data(): RETURN DISTINCT rows (actions.py:217-219)
ValidVersionRows(s, kind, identifier, dt) ==
    {[expression_id |-> e.expression_id, work_id |-> e.work_id,
      valid_from |-> e.valid_from, valid_to |-> e.valid_to] :
        e \in {x \in MatchRoot(s, kind, identifier) : ContainsDate(x, dt)}}

\* get_valid_version (actions.py:76-99)
get_valid_version(s, component_id, target_date) ==
    LET parsed == parse_component_id(component_id)
    IN  IF ~IsIsoDate(target_date)
        THEN [ok |-> FALSE, error |-> "invalid_target_date"]
        ELSE LET records == ValidVersionRows(s, parsed[1], parsed[2],
                                             FromIso(IsoFormat(FromIso(target_date))))
             IN  IF records = {}
                 THEN [ok |-> FALSE, error |-> "expression_not_found"]
                 ELSE IF Cardinality(records) > 1
                 THEN [ok |-> FALSE, error |-> "multiple_expressions_found"]
                 ELSE [ok |-> TRUE, record |-> CHOOSE r \in records : TRUE]

----------------------------------------------------------------------------
(* search_items and search_text_units *)

Max(a, b) == IF a >= b THEN a ELSE b
Min(a, b) == IF a <= b THEN a ELSE b

\* the first n elements: Cypher LIMIT n
Take(xs, n) == SubSeq(xs, 1, Min(n, Len(xs)))

\* search_items (actions.py:8-56): an empty query returns nothing; the rows
\* of the candidate query come ordered from the store, cut by LIMIT
\* max(limit, 1), and each becomes an item carrying its urn
search_items(s, query, limit) ==
    IF Strip(query) = <<>> THEN <<>>
    ELSE LET rows == Take(s.ranked, Max(limit, 1))
         IN  [n \in 1..Len(rows) |->
                 [urn |-> UrnRef(rows[n].kind, rows[n].id),
                  kind |-> rows[n].kind,
                  component_id |-> rows[n].id]]

\* paragraph ids in ascending order of their text (ORDER BY paragraph_id ASC)
ParagraphOrder == <<"p1", "p2", "p3", "p4", "p5", "p6", "p7">>

PidIndex(p) == CHOOSE n \in 1..Len(ParagraphOrder) : ParagraphOrder[n] = p

\* ORDER BY score DESC, paragraph_id ASC
Before(a, b) ==
    \/ a.score > b.score
    \/ a.score = b.score /\ PidIndex(a.paragraph_id) < PidIndex(b.paragraph_id)

\* ORDER BY paragraph_id ASC
BeforeById(a, b) == PidIndex(a.paragraph_id) < PidIndex(b.paragraph_id)

RECURSIVE SortByScore(_)
SortByScore(S) ==
    IF S = {} THEN <<>>
    ELSE LET first == CHOOSE a \in S : \A b \in S \ {a} : Before(a, b)
         IN  <<first>> \o SortByScore(S \ {first})

RECURSIVE SortById(_)
SortById(S) ==
    IF S = {} THEN <<>>
    ELSE LET first == CHOOSE a \in S : \A b \in S \ {a} : BeforeById(a, b)
         IN  <<first>> \o SortById(S \ {first})

\* the paragraphs of an Expression:
\* (e:Expression)-[:HAS_ARTICLE]->(a)-[:HAS_PARAGRAPH]->(p)
ParagraphsOf(s, expression_id) ==
    {p \in s.paragraphs :
        \E a \in s.articles :
            a.article_id = p.article_id /\ a.expression_id = expression_id}

\* normalize_paragraph_results (actions.py:172-192)
normalize_paragraph_results(records, expression_id, mode) ==
    [n \in 1..Len(records) |->
        [expression_id |-> expression_id,
         paragraph_id |-> records[n].paragraph_id,
         article_id |-> records[n].article_id,
         retrieval_mode |-> mode]]

\* the vector query (actions.py:109-133): the vector_k nearest paragraphs of
\* the whole index, those of the Expression kept, ordered, cut at top_k
VectorRows(s, expression_id, vector_k, k) ==
    LET nearest == SeqRange(Take(SortByScore(s.paragraphs), vector_k))
    IN  Take(SortByScore(nearest \cap ParagraphsOf(s, expression_id)), k)

\* keyword_search (actions.py:149-169)
keyword_search(s, expression_id, k) ==
    normalize_paragraph_results(
        Take(SortById({p \in ParagraphsOf(s, expression_id) : p.keyword}), k),
        expression_id, "keyword")

\* the loop of search_text_units appending every keyword result, seen or not
FuseAll(results, keyword_results, k) ==
    SubSeq(results \o keyword_results, 1, Min(k, Len(results) + Len(keyword_results)))

\* the loop of search_text_units (actions.py:138-146)
RECURSIVE Fuse(_, _, _)
Fuse(results, keyword_results, k) ==
    IF keyword_results = <<>> \/ Len(results) >= k THEN results
    ELSE IF \E n \in 1..Len(results) :
                results[n].paragraph_id = Head(keyword_results).paragraph_id
         THEN Fuse(results, Tail(keyword_results), k)
         ELSE Fuse(Append(results, Head(keyword_results)), Tail(keyword_results), k)

\* search_text_units (actions.py:102-146)
search_text_units(s, expression_id, semantic_query, k) ==
    IF Strip(semantic_query) = <<>> THEN <<>>
    ELSE LET results == normalize_paragraph_results(
                            VectorRows(s, expression_id, Max(k, 1) * 3, Max(k, 1)),
                            expression_id, "vector")
         IN  IF Len(results) >= Max(k, 1) THEN results
             ELSE Fuse(results, keyword_search(s, expression_id, Max(k, 1)), Max(k, 1))

ParagraphIds(paragraphs) == [n \in 1..Len(paragraphs) |-> paragraphs[n].paragraph_id]

----------------------------------------------------------------------------
(* classify_request *)

\* str.lower() on the words of the model
Lower(t) ==
    CASE t \in {"Should", "SHOULD"} -> "should"
      [] t = "We" -> "we"
      [] t = "Bypass" -> "bypass"
      [] t = "Regulation" -> "regulation"
      [] t = "Summarize" -> "summarize"
      [] t = "MiCA" -> "mica"
      [] t = "Tell" -> "tell"
      [] OTHER -> t

\* the characters [^a-z0-9] of a lowercased question: whitespace and
\* punctuation
IsSeparator(t) == t \in {"sp", "nl", "?", ".", ",", "-", "'"}

\* normalize_text (refusal.py:7-9): the words of the lowercased text, a word
\* being a maximal run of alphanumeric tokens
RECURSIVE WordsOf(_, _)
WordsOf(text, word) ==
    IF text = <<>> THEN (IF word = <<>> THEN <<>> ELSE <<word>>)
    ELSE IF IsSeparator(Head(text))
         THEN (IF word = <<>> THEN <<>> ELSE <<word>>) \o WordsOf(Tail(text), <<>>)
         ELSE WordsOf(Tail(text), Append(word, Lower(Head(text))))

normalize_text(text) == WordsOf(text, <<>>)

\* raw_patterns of advisory_patterns (refusal.py:13-43), each \b...\b phrase
\* as its sequence of words
ADVISORY_PATTERNS == {
    <<"should", "i">>,
    <<"should", "we">>,
    <<"should", "our">>,
    <<"what", "should", "i", "do">>,
    <<"what", "should", "we", "do">>,
    <<"tell", "me", "what", "to", "do">>,
    <<"can", "you", "tell", "me", "what", "to", "do">>,
    <<"do", "you", "think", "i", "should">>,
    <<"do", "you", "think", "we", "should">>,
    <<"advise", "me">>,
    <<"can", "you", "advise">>,
    <<"provide", "advice">>,
    <<"what", "do", "you", "recommend">>,
    <<"recommend", "that", "i">>,
    <<"recommend", "that", "we">>,
    <<"is", "my", "token", "a", "security">>,
    <<"is", "my", "token", "considered", "a", "security">>,
    <<"is", "our", "token", "a", "security">>,
    <<"is", "this", "token", "a", "security">>,
    <<"bypass", "regulation">>,
    <<"can", "we", "bypass", "regulation">>,
    <<"how", "to", "bypass", "regulation">>,
    <<"avoid", "regulation">>,
    <<"get", "around", "regulation">>,
    <<"work", "around", "regulation">>,
    <<"how", "do", "we", "avoid", "compliance">>,
    <<"should", "i", "register">>,
    <<"should", "we", "register">>,
    <<"should", "i", "comply">>,
    <<"should", "we", "comply">>,
    <<"what", "should", "our", "company", "do">> }

\* the patterns without their \b: the phrase may begin inside a word and end
\* inside a word
PatternMatchesNoBoundary(pattern, words) ==
    \E i \in 1..(Len(words) - Len(pattern) + 1) :
        \A j \in 1..Len(pattern) :
            LET word == words[i + j - 1]
            IN  /\ word # <<>>
                /\ j = 1 => word[Len(word)] = pattern[j]
                /\ j = Len(pattern) => word[1] = pattern[j]
                /\ (j > 1 /\ j < Len(pattern)) => word = <<pattern[j]>>
                /\ (j = 1 /\ j = Len(pattern)) => word = <<pattern[j]>>

\* pattern.search(normalized): the phrase occurs as a run of whole words
PatternMatches(pattern, words) ==
    \E i \in 1..(Len(words) - Len(pattern) + 1) :
        \A j \in 1..Len(pattern) : words[i + j - 1] = <<pattern[j]>>

\* classify_request (refusal.py:52-57)
classify_request(text) ==
    IF \E pattern \in ADVISORY_PATTERNS : PatternMatches(pattern, normalize_text(text))
    THEN "advisory"
    ELSE "informational"

----------------------------------------------------------------------------
(* Configuration and program constants *)

\* Settings.llm_max_retries (config.py:32)
LlmMaxRetries == 2

\* the forced exit of route_after_verify and respond_node: attempts >= 3
MaxRetrievalAttempts == 3

\* top_k grows by (attempt - 1) * 2 (orchestration.py:59)
TopKStep == 2

\* scores in tenths: StubScorer.score returns 1.0, the guardrail passes at 0.9
StubScore == 10
FaithfulnessThreshold == 9

\* back-off of query_with_retry in milliseconds: min(0.2 * 2^(attempt-1), 2.0)
BackoffBaseMs == 200
BackoffCapMs == 2000

----------------------------------------------------------------------------
(* Generation *)

RECURSIVE SortIds(_)
SortIds(S) ==
    IF S = {} THEN <<>>
    ELSE LET first == CHOOSE a \in S : \A b \in S \ {a} : PidIndex(a) < PidIndex(b)
         IN  <<first>> \o SortIds(S \ {first})

\* generate_answer after the query returned raw text (answering.py:102-110);
\* response.source_nodes are the nodes built from the paragraphs, in order
generate_answer_result(raw_answer, paragraphs) ==
    LET mapped == map_citations(raw_answer, ParagraphIds(paragraphs))
        retrieved_ids == SeqRange(ParagraphIds(paragraphs))
    IN  IF mapped.invalid
        THEN [answer_text |-> INSUFFICIENT_MESSAGE, cited_ids |-> <<>>]
        ELSE IF ~validate_answer(mapped.text, retrieved_ids)
        THEN [answer_text |-> INSUFFICIENT_MESSAGE, cited_ids |-> <<>>]
        ELSE [answer_text |-> mapped.text,
              cited_ids |-> SortIds(SeqRange(CitedIn(mapped.text, retrieved_ids)))]

\* attempts of query_with_retry (answering.py:179)
LlmAttempts == Max(1, LlmMaxRetries + 1)

RECURSIVE Pow2(_)
Pow2(n) == IF n = 0 THEN 1 ELSE 2 * Pow2(n - 1)

\* the back-off without its ceiling
BackoffUncapped(attempt) == BackoffBaseMs * Pow2(attempt - 1)

\* time.sleep(min(0.2 * (2 ** (attempt - 1)), 2.0)) in milliseconds
Backoff(attempt) == Min(BackoffBaseMs * Pow2(attempt - 1), BackoffCapMs)

\* what the generation capability may write: sentences with 1-based markers,
\* an uncited sentence, a literal id that was never retrieved, a blank line,
\* the sentinel of the prompt
LlmChunks == {
    <<"w", "[", "1", "]">>,
    <<"w", "[", "2", "]">>,
    <<"w", "[", "1", ",", "sp", "3", "]">>,
    <<"w">>,
    <<"w", "[", "p9", "]">>,
    <<"nl", "nl">>,
    INSUFFICIENT_MESSAGE }

RECURSIVE ChunkTexts(_)
ChunkTexts(n) ==
    IF n = 0 THEN {<<>>}
    ELSE ChunkTexts(n - 1) \cup {t \o c : t \in ChunkTexts(n - 1), c \in LlmChunks}

LlmTexts == ChunkTexts(MaxChunks)

----------------------------------------------------------------------------
(* Requests *)

NoId == ""
NoDate == WordStr("")

Running == [kind |-> "running"]
Returned(response) == [kind |-> "returned", response |-> response]
Raised(error) == [kind |-> "raised", error |-> error]

\* the exceptions that are RuntimeError: build_llm's missing key
\* (answering.py:156) and query_with_retry's timeout (answering.py:187)
IsRuntimeError(error) == error \in {"openai_api_key_missing", "llm_timeout"}

\* verification_results = {} (orchestration.py:258); keys holds the keys set
EmptyVerification ==
    [keys |-> {}, temporal_scope |-> [ok |-> FALSE], resolved_date |-> NoDate,
     reason |-> "", retrieved_ids |-> <<>>, citations |-> <<>>,
     citations_valid |-> FALSE, extracted_citations |-> <<>>,
     faithfulness_score |-> 0, guardrail_passed |-> FALSE]

\* initial_state of run_orchestrated_query (orchestration.py:248-260)
InitialState ==
    [plan_steps |-> <<>>, retrieved_items |-> <<>>, draft_answer |-> <<>>,
     verification_results |-> EmptyVerification, retrieval_attempts |-> 0,
     resolved_date |-> NoDate]

NoCalls == [search_items |-> 0, get_valid_version |-> 0, search_text_units |-> 0,
            build_llm |-> 0, generation |-> 0]

NoVisits == [plan |-> 0, resolve_temporal_scope |-> 0, retrieve_evidence |-> 0,
             verify_citations |-> 0, output_guardrail |-> 0, respond |-> 0]

\* no generation in flight
IdleLlm == [attempt |-> 0, sleeps |-> <<>>, paragraphs |-> <<>>,
            selected |-> PlainRef(NoId), expression_id |-> NoId, work_id |-> NoId]

Call(name) == [calls EXCEPT ![name] = @ + 1]
Visit(name) == [visits EXCEPT ![name] = @ + 1]

\* insufficient_response (answering.py:242-249)
insufficient_response ==
    [answer |-> INSUFFICIENT_MESSAGE, expression_id |-> NoId, work_id |-> NoId,
     citations |-> <<>>, sources |-> <<>>]

\* the request inputs
Questions == {
    <<"Should", "sp", "we", "sp", "bypass", "sp", "regulation", "?">>,
    <<"Tell", "sp", "me", "sp", "what", "sp", "to", "sp", "do">>,
    <<"Summarize", "sp", "MiCA">>,
    <<"sp">> }

AsOfInputs == {
    YmdStr(4, 2024, 2, 29),
    YmdStr(4, 2023, 2, 29),
    YearStr(4, 2023),
    WordStr("current"),
    WordStr("not-a-date") }

TopKs == {1, 2}
ItemLimits == {1, 5}

\* a healthy store: W1 has two consecutive versions, W2 one open-ended one
StoreA ==
    [expressions |-> {
        [expression_id |-> "E1", work_id |-> "W1",
         valid_from |-> <<2020, 1, 1>>, valid_to |-> <<2022, 12, 31>>],
        [expression_id |-> "E2", work_id |-> "W1",
         valid_from |-> <<2023, 1, 1>>, valid_to |-> NULL],
        [expression_id |-> "E3", work_id |-> "W2",
         valid_from |-> <<2020, 1, 1>>, valid_to |-> NULL]},
     articles |-> {
        [article_id |-> "A1", expression_id |-> "E1"],
        [article_id |-> "A2", expression_id |-> "E2"],
        [article_id |-> "A3", expression_id |-> "E3"]},
     paragraphs |-> {
        [paragraph_id |-> "p1", article_id |-> "A2", score |-> 9, keyword |-> FALSE],
        [paragraph_id |-> "p2", article_id |-> "A2", score |-> 5, keyword |-> TRUE],
        [paragraph_id |-> "p3", article_id |-> "A3", score |-> 7, keyword |-> TRUE],
        [paragraph_id |-> "p4", article_id |-> "A1", score |-> 8, keyword |-> TRUE]},
     ranked |-> <<[kind |-> "work", id |-> "W1"],
                  [kind |-> "article", id |-> "A3"],
                  [kind |-> "work", id |-> "W2"]>>]

\* a store that breaks the interval invariant for W1 and holds a version
\* without paragraphs for W3
StoreB ==
    [expressions |-> {
        [expression_id |-> "E1", work_id |-> "W1",
         valid_from |-> <<2020, 1, 1>>, valid_to |-> NULL],
        [expression_id |-> "E2", work_id |-> "W1",
         valid_from |-> <<2023, 1, 1>>, valid_to |-> NULL],
        [expression_id |-> "E3", work_id |-> "W2",
         valid_from |-> <<2020, 1, 1>>, valid_to |-> NULL],
        [expression_id |-> "E4", work_id |-> "W3",
         valid_from |-> <<2020, 1, 1>>, valid_to |-> NULL]},
     articles |-> {
        [article_id |-> "A2", expression_id |-> "E2"],
        [article_id |-> "A3", expression_id |-> "E3"]},
     paragraphs |-> {
        [paragraph_id |-> "p1", article_id |-> "A2", score |-> 9, keyword |-> TRUE],
        [paragraph_id |-> "p3", article_id |-> "A3", score |-> 7, keyword |-> FALSE]},
     ranked |-> <<[kind |-> "work", id |-> "W1"],
                  [kind |-> "work", id |-> "W3"],
                  [kind |-> "work", id |-> "W2"]>>]

\* a store without a candidate for the question
StoreC ==
    [expressions |-> {}, articles |-> {}, paragraphs |-> {}, ranked |-> <<>>]

Stores == {StoreA, StoreB, StoreC}

Init ==
    /\ api \in {"answer", "orchestrated"}
    /\ question \in Questions
    /\ as_of_date \in AsOfInputs
    /\ top_k \in TopKs
    /\ item_limit \in ItemLimits
    /\ credentials \in BOOLEAN
    /\ store \in Stores
    /\ pc = "start"
    /\ st = InitialState
    /\ llm = IdleLlm
    /\ calls = NoCalls
    /\ visits = NoVisits
    /\ outcome = Running
    /\ fin = <<>>
    /\ fout = <<>>

----------------------------------------------------------------------------
(* What becomes of an exception of generate_answer *)

\* answer_question's handlers with RuntimeError handled like any exception
AnswerOnExceptionAllCaught(error) == Returned(insufficient_response)

\* answer_question's handlers around generate_answer (answering.py:58-69):
\* a RuntimeError is raised again, any other exception gives the sentinel
AnswerOnException(error) ==
    IF IsRuntimeError(error) THEN Raised(error) ELSE Returned(insufficient_response)

\* retrieve_evidence_node calls generate_answer outside any try
\* (orchestration.py:112-118), and neither GRAPH.invoke nor
\* run_orchestrated_query (orchestration.py:261) handles exceptions
OrchestratedOnException(error) == Raised(error)

----------------------------------------------------------------------------
(* orchestrated_answer: run_orchestrated_query and the graph nodes *)

\* run_orchestrated_query without its advisory gate
OrchestratedGateOff(text) == FALSE

\* the condition of the advisory gate (orchestration.py:240)
OrchestratedGate(text) == classify_request(text) = "advisory"

\* the advisory gate of run_orchestrated_query (orchestration.py:240-247),
\* else GRAPH.invoke(initial_state) enters the graph at plan
OrchestratedStart ==
    /\ api = "orchestrated" /\ pc = "start"
    /\ IF OrchestratedGate(question)
       THEN /\ outcome' = Returned([answer |-> REFUSAL_MESSAGE, plan_steps |-> <<>>,
                                    retrieved_items |-> <<>>,
                                    verification_results |->
                                        [EmptyVerification EXCEPT
                                            !.keys = {"reason"},
                                            !.reason = "advisory_refusal"],
                                    citations |-> <<>>])
            /\ pc' = "done"
       ELSE /\ pc' = "plan"
            /\ UNCHANGED outcome
    /\ UNCHANGED <<api, question, as_of_date, top_k, item_limit, credentials, store,
                   st, llm, calls, visits, fin, fout>>

\* plan_node (orchestration.py:27-41)
plan_node ==
    /\ api = "orchestrated" /\ pc = "plan"
    /\ st' = [st EXCEPT !.plan_steps =
                <<"Plan", "Resolve Temporal Scope", "Retrieve Evidence",
                  "Verify Citations", "Output Guardrail", "Respond">>]
    /\ visits' = Visit("plan")
    /\ pc' = "resolve_temporal_scope"
    /\ UNCHANGED <<api, question, as_of_date, top_k, item_limit, credentials, store,
                   llm, calls, outcome, fin, fout>>

\* resolve_temporal_node (orchestration.py:44-53); a ValueError of
\* resolve_temporal_scope leaves GRAPH.invoke and run_orchestrated_query
resolve_temporal_node ==
    /\ api = "orchestrated" /\ pc = "resolve_temporal_scope"
    /\ visits' = Visit("resolve_temporal_scope")
    /\ LET scope == resolve_temporal_scope(as_of_date)
       IN  IF ~scope.ok
           THEN /\ outcome' = Raised(scope.error)
                /\ pc' = "done"
                /\ UNCHANGED st
           ELSE LET resolved_date == IF scope.type = "date" THEN scope.date
                                     ELSE scope.end
                IN  /\ st' = [st EXCEPT
                                !.resolved_date = resolved_date,
                                !.verification_results.keys =
                                    @ \cup {"temporal_scope", "resolved_date"},
                                !.verification_results.temporal_scope = scope,
                                !.verification_results.resolved_date = resolved_date]
                    /\ pc' = "retrieve_evidence"
                    /\ UNCHANGED outcome
    /\ UNCHANGED <<api, question, as_of_date, top_k, item_limit, credentials, store,
                   llm, calls, fin, fout>>

\* state.get("resolved_date") or state["as_of_date"]
TargetDate == IF st.resolved_date # NoDate THEN st.resolved_date ELSE as_of_date

\* attempt = state.get("retrieval_attempts", 0) + 1 (orchestration.py:57)
NextAttempt == st.retrieval_attempts + 1

\* top_k of the attempt without the widening
AttemptTopKFixed(attempt) == top_k

\* top_k of the attempt (orchestration.py:59)
AttemptTopK(attempt) == top_k + (attempt - 1) * TopKStep

\* selected_index that stays with the best-ranked candidate
SelectedIndexFirst(attempt, items) == 1

\* selected_index of the attempt, 1-based (orchestration.py:71)
SelectedIndex(attempt, items) == Min(attempt - 1, Len(items) - 1) + 1

\* an entry of retrieved_items
RetrievedItem(attempt, selected, expression_id, work_id, paragraphs) ==
    [attempt |-> attempt, item |-> selected, expression_id |-> expression_id,
     work_id |-> work_id, paragraphs |-> ParagraphIds(paragraphs)]

\* retrieve_evidence_node up to the generation call (orchestration.py:56-118,
\* generate_answer answering.py:90-101): the node returns at once when there
\* is no item, no version or no paragraph; build_llm raises when the api key
\* is missing; otherwise query_with_retry starts
retrieve_evidence_node ==
    /\ api = "orchestrated" /\ pc = "retrieve_evidence"
    /\ visits' = Visit("retrieve_evidence")
    /\ LET attempt == NextAttempt
           items == search_items(store, question, item_limit)
           verification == st.verification_results
       IN  IF items = <<>>
           THEN /\ st' = [st EXCEPT
                            !.retrieval_attempts = attempt,
                            !.draft_answer = INSUFFICIENT_MESSAGE,
                            !.verification_results.keys = @ \cup {"reason"},
                            !.verification_results.reason = "no_items"]
                /\ calls' = Call("search_items")
                /\ pc' = "verify_citations"
                /\ UNCHANGED <<llm, outcome>>
           ELSE
           LET selected == items[SelectedIndex(attempt, items)]
               version == get_valid_version(store, selected.urn, TargetDate)
           IN  IF ~version.ok
               THEN /\ st' = [st EXCEPT
                                !.retrieval_attempts = attempt,
                                !.draft_answer = INSUFFICIENT_MESSAGE,
                                !.retrieved_items = Append(@,
                                    RetrievedItem(attempt, selected.urn, NoId, NoId, <<>>)),
                                !.verification_results.keys = @ \cup {"reason"},
                                !.verification_results.reason = "version_unavailable"]
                    /\ calls' = [calls EXCEPT !.search_items = @ + 1,
                                              !.get_valid_version = @ + 1]
                    /\ pc' = "verify_citations"
                    /\ UNCHANGED <<llm, outcome>>
               ELSE
               LET paragraphs == search_text_units(store, version.record.expression_id,
                                                   question, AttemptTopK(attempt))
               IN  IF paragraphs = <<>>
                   THEN /\ st' = [st EXCEPT
                                    !.retrieval_attempts = attempt,
                                    !.draft_answer = INSUFFICIENT_MESSAGE,
                                    !.retrieved_items = Append(@,
                                        RetrievedItem(attempt, selected.urn,
                                                      version.record.expression_id,
                                                      version.record.work_id, <<>>)),
                                    !.verification_results.keys =
                                        @ \cup {"reason", "retrieved_ids"},
                                    !.verification_results.reason = "no_paragraphs",
                                    !.verification_results.retrieved_ids = <<>>]
                        /\ calls' = [calls EXCEPT !.search_items = @ + 1,
                                                  !.get_valid_version = @ + 1,
                                                  !.search_text_units = @ + 1]
                        /\ pc' = "verify_citations"
                        /\ UNCHANGED <<llm, outcome>>
                   ELSE /\ calls' = [calls EXCEPT !.search_items = @ + 1,
                                                  !.get_valid_version = @ + 1,
                                                  !.search_text_units = @ + 1,
                                                  !.build_llm = @ + 1]
                        /\ IF ~credentials
                           THEN /\ outcome' = OrchestratedOnException("openai_api_key_missing")
                                /\ pc' = "done"
                                /\ UNCHANGED llm
                           ELSE /\ llm' = [attempt |-> 1, sleeps |-> <<>>,
                                           paragraphs |-> paragraphs,
                                           selected |-> selected.urn,
                                           expression_id |-> version.record.expression_id,
                                           work_id |-> version.record.work_id]
                                /\ pc' = "query_with_retry"
                                /\ UNCHANGED outcome
                        /\ UNCHANGED st
    /\ UNCHANGED <<api, question, as_of_date, top_k, item_limit, credentials, store,
                   fin, fout>>

\* route_after_verify without the forced exit at 3 attempts
route_after_verify_unbounded(attempts, citations_valid) ==
    IF citations_valid THEN "output_guardrail" ELSE "retrieve_evidence"

\* route_after_verify leaving the loop one attempt late
route_after_verify_late(attempts, citations_valid) ==
    IF citations_valid THEN "output_guardrail"
    ELSE IF attempts > MaxRetrievalAttempts THEN "output_guardrail"
    ELSE "retrieve_evidence"

\* route_after_verify that never goes back to RetrieveEvidence
route_after_verify_always_exit(attempts, citations_valid) == "output_guardrail"

\* route_after_verify (orchestration.py:199-205)
route_after_verify(attempts, citations_valid) ==
    IF citations_valid THEN "output_guardrail"
    ELSE IF attempts >= MaxRetrievalAttempts THEN "output_guardrail"
    ELSE "retrieve_evidence"

\* the rest of retrieve_evidence_node adding the ids of the attempt to those
\* of the attempts before
EvidencePatchAccumulating(state, result) ==
    [state EXCEPT
        !.retrieval_attempts = @ + 1,
        !.draft_answer = result.answer_text,
        !.retrieved_items = Append(@,
            RetrievedItem(state.retrieval_attempts + 1, llm.selected,
                          llm.expression_id, llm.work_id, llm.paragraphs)),
        !.verification_results.keys = @ \cup {"retrieved_ids", "citations"},
        !.verification_results.retrieved_ids = @ \o ParagraphIds(llm.paragraphs),
        !.verification_results.citations = result.cited_ids]

\* the rest of retrieve_evidence_node once generate_answer returned
\* (orchestration.py:119-135)
EvidencePatch(state, result) ==
    [state EXCEPT
        !.retrieval_attempts = @ + 1,
        !.draft_answer = result.answer_text,
        !.retrieved_items = Append(@,
            RetrievedItem(state.retrieval_attempts + 1, llm.selected,
                          llm.expression_id, llm.work_id, llm.paragraphs)),
        !.verification_results.keys = @ \cup {"retrieved_ids", "citations"},
        !.verification_results.retrieved_ids = ParagraphIds(llm.paragraphs),
        !.verification_results.citations = result.cited_ids]

\* citations_valid of verify_citations_node (orchestration.py:142-144)
CitationsValid(answer_text, retrieved_ids) ==
    /\ answer_text # <<>>
    /\ Strip(answer_text) # INSUFFICIENT_MESSAGE
    /\ retrieved_ids # {}
    /\ validate_answer(answer_text, retrieved_ids)

\* verify_citations_node (orchestration.py:138-151), then the conditional
\* edge route_after_verify (orchestration.py:220-223)
verify_citations_node ==
    /\ api = "orchestrated" /\ pc = "verify_citations"
    /\ visits' = Visit("verify_citations")
    /\ LET verification == st.verification_results
           retrieved_ids == SeqRange(verification.retrieved_ids)
           answer_text == st.draft_answer
           citations_valid == CitationsValid(answer_text, retrieved_ids)
       IN  /\ st' = [st EXCEPT
                        !.verification_results.keys =
                            @ \cup {"citations_valid", "extracted_citations"}
                              \cup (IF ~citations_valid THEN {"reason"} ELSE {}),
                        !.verification_results.citations_valid = citations_valid,
                        !.verification_results.extracted_citations =
                            CitedIn(answer_text, retrieved_ids),
                        !.verification_results.reason =
                            IF ~citations_valid /\ "reason" \notin verification.keys
                            THEN "invalid_citations" ELSE @]
           /\ pc' = route_after_verify(st.retrieval_attempts, citations_valid)
    /\ UNCHANGED <<api, question, as_of_date, top_k, item_limit, credentials, store,
                   llm, calls, outcome, fin, fout>>

\* StubScorer.score (faithfulness.py:9-11)
Score(answer_text, evidence) == StubScore

\* guardrail_passed with the guardrail switched off
GuardrailPassedOff(citations_valid, answer_text, faithfulness_score) == TRUE

\* guardrail_passed (orchestration.py:167)
GuardrailPassed(citations_valid, answer_text, faithfulness_score) ==
    /\ citations_valid
    /\ answer_text # INSUFFICIENT_MESSAGE
    /\ faithfulness_score >= FaithfulnessThreshold

\* guardrail_node (orchestration.py:154-173)
guardrail_node ==
    /\ api = "orchestrated" /\ pc = "output_guardrail"
    /\ visits' = Visit("output_guardrail")
    /\ LET verification == st.verification_results
           citations_valid == verification.citations_valid
           answer_text == Strip(st.draft_answer)
           evidence == IF st.retrieved_items # <<>>
                       THEN st.retrieved_items[Len(st.retrieved_items)].paragraphs
                       ELSE <<>>
           faithfulness_score ==
               IF citations_valid /\ answer_text # <<>>
                                  /\ answer_text # INSUFFICIENT_MESSAGE
               THEN Score(answer_text, evidence) ELSE 0
           guardrail_passed ==
               GuardrailPassed(citations_valid, answer_text, faithfulness_score)
       IN  st' = [st EXCEPT
                     !.verification_results.keys =
                         @ \cup {"faithfulness_score", "guardrail_passed"}
                           \cup (IF ~guardrail_passed THEN {"reason"} ELSE {}),
                     !.verification_results.faithfulness_score = faithfulness_score,
                     !.verification_results.guardrail_passed = guardrail_passed,
                     !.verification_results.reason =
                         IF ~guardrail_passed /\ "reason" \notin verification.keys
                         THEN (IF faithfulness_score < FaithfulnessThreshold
                               THEN "faithfulness_score_low" ELSE "guardrail_failed")
                         ELSE @,
                     !.draft_answer =
                         IF ~guardrail_passed THEN INSUFFICIENT_MESSAGE ELSE @]
    /\ pc' = "respond"
    /\ UNCHANGED <<api, question, as_of_date, top_k, item_limit, credentials, store,
                   llm, calls, outcome, fin, fout>>

\* the citations of respond_node as every retrieved id, whatever the answer
RespondCitationsAllRetrieved(answer_text, verification) ==
    verification.retrieved_ids

\* the citations of respond_node (orchestration.py:182-188)
RespondCitations(answer_text, verification) ==
    IF Strip(answer_text) # INSUFFICIENT_MESSAGE
    THEN CitedIn(answer_text, SeqRange(verification.retrieved_ids))
    ELSE <<>>

\* the answer of respond_node forcing the sentinel after 3 attempts, valid
\* citations or not
RespondAnswerExhausted(verification, attempts, draft) ==
    IF ~verification.guardrail_passed \/ attempts >= MaxRetrievalAttempts
    THEN INSUFFICIENT_MESSAGE
    ELSE draft

\* the answer of respond_node (orchestration.py:179-181)
RespondAnswer(verification, attempts, draft) ==
    IF \/ ~verification.guardrail_passed
       \/ (attempts >= MaxRetrievalAttempts /\ ~verification.citations_valid)
    THEN INSUFFICIENT_MESSAGE
    ELSE draft

\* respond_node (orchestration.py:176-196); run_orchestrated_query returns
\* result["response"]
respond_node ==
    /\ api = "orchestrated" /\ pc = "respond"
    /\ visits' = Visit("respond")
    /\ LET verification == st.verification_results
           answer_text == RespondAnswer(verification, st.retrieval_attempts,
                                        st.draft_answer)
       IN  outcome' = Returned(
               [answer |-> answer_text,
                plan_steps |-> st.plan_steps,
                retrieved_items |-> st.retrieved_items,
                verification_results |-> verification,
                citations |-> RespondCitations(answer_text, verification)])
    /\ pc' = "done"
    /\ UNCHANGED <<api, question, as_of_date, top_k, item_limit, credentials, store,
                   st, llm, calls, fin, fout>>

----------------------------------------------------------------------------
(* answer: answer_question *)

\* the condition of the advisory gate (answering.py:39)
AnswerGate(text) == classify_request(text) = "advisory"

\* the advisory gate of answer_question (answering.py:39-46)
AnswerStart ==
    /\ api = "answer" /\ pc = "start"
    /\ IF AnswerGate(question)
       THEN /\ outcome' = Returned([answer |-> REFUSAL_MESSAGE, expression_id |-> NoId,
                                    work_id |-> NoId, citations |-> <<>>,
                                    sources |-> <<>>])
            /\ pc' = "done"
       ELSE /\ pc' = "answer_retrieve"
            /\ UNCHANGED outcome
    /\ UNCHANGED <<api, question, as_of_date, top_k, item_limit, credentials, store,
                   st, llm, calls, visits, fin, fout>>

\* answer_question from the candidate search to the generation call
\* (answering.py:47-65, generate_answer answering.py:90-101)
AnswerRetrieve ==
    /\ api = "answer" /\ pc = "answer_retrieve"
    /\ LET items == search_items(store, question, item_limit)
       IN  IF items = <<>>
           THEN /\ outcome' = Returned(insufficient_response)
                /\ calls' = Call("search_items")
                /\ pc' = "done"
                /\ UNCHANGED llm
           ELSE
           LET selected == items[1]
               version == get_valid_version(store, selected.urn, as_of_date)
           IN  IF ~version.ok
               THEN /\ outcome' = Returned(insufficient_response)
                    /\ calls' = [calls EXCEPT !.search_items = @ + 1,
                                              !.get_valid_version = @ + 1]
                    /\ pc' = "done"
                    /\ UNCHANGED llm
               ELSE
               LET paragraphs == search_text_units(store, version.record.expression_id,
                                                   question, top_k)
               IN  IF paragraphs = <<>>
                   THEN /\ outcome' = Returned(insufficient_response)
                        /\ calls' = [calls EXCEPT !.search_items = @ + 1,
                                                  !.get_valid_version = @ + 1,
                                                  !.search_text_units = @ + 1]
                        /\ pc' = "done"
                        /\ UNCHANGED llm
                   ELSE /\ calls' = [calls EXCEPT !.search_items = @ + 1,
                                                  !.get_valid_version = @ + 1,
                                                  !.search_text_units = @ + 1,
                                                  !.build_llm = @ + 1]
                        /\ IF ~credentials
                           THEN /\ outcome' = AnswerOnException("openai_api_key_missing")
                                /\ pc' = "done"
                                /\ UNCHANGED llm
                           ELSE /\ llm' = [attempt |-> 1, sleeps |-> <<>>,
                                           paragraphs |-> paragraphs,
                                           selected |-> selected.urn,
                                           expression_id |-> version.record.expression_id,
                                           work_id |-> version.record.work_id]
                                /\ pc' = "query_with_retry"
                                /\ UNCHANGED outcome
    /\ UNCHANGED <<api, question, as_of_date, top_k, item_limit, credentials, store,
                   st, visits, fin, fout>>

\* answer_question once generate_answer returned (answering.py:70-80)
AnswerResponse(result) ==
    IF result.answer_text = <<>> THEN insufficient_response
    ELSE IF Strip(result.answer_text) = INSUFFICIENT_MESSAGE THEN insufficient_response
    ELSE [answer |-> result.answer_text,
          expression_id |-> llm.expression_id,
          work_id |-> llm.work_id,
          citations |-> result.cited_ids,
          sources |-> ParagraphIds(llm.paragraphs)]

----------------------------------------------------------------------------
(* query_with_retry: one action per call of the generation capability *)

\* the call returns text within the timeout (answering.py:183-184); the
\* caller goes on: generate_answer maps and validates, then the node or
\* answer_question finishes
LlmReturnsWith(raw) ==
    /\ pc = "query_with_retry"
    /\ LET result == generate_answer_result(raw, llm.paragraphs)
       IN  IF api = "orchestrated"
           THEN /\ st' = EvidencePatch(st, result)
                /\ pc' = "verify_citations"
                /\ UNCHANGED outcome
           ELSE /\ outcome' = Returned(AnswerResponse(result))
                /\ pc' = "done"
                /\ UNCHANGED st
    /\ calls' = Call("generation")
    /\ llm' = IdleLlm
    /\ UNCHANGED <<api, question, as_of_date, top_k, item_limit, credentials, store,
                   visits, fin, fout>>

\* the capability may answer any text
LlmReturns == \E raw \in LlmTexts : LlmReturnsWith(raw)

\* a failed call answered by a new retrieval attempt instead of a new call
LlmRetryNewAttempt ==
    /\ api = "orchestrated" /\ pc = "query_with_retry"
    /\ llm.attempt < LlmAttempts
    /\ calls' = Call("generation")
    /\ llm' = IdleLlm
    /\ st' = [st EXCEPT !.retrieval_attempts = NextAttempt]
    /\ pc' = "retrieve_evidence"
    /\ UNCHANGED <<api, question, as_of_date, top_k, item_limit, credentials, store,
                   visits, outcome, fin, fout>>

\* the call fails and an attempt is left: back off and call again
\* (answering.py:185-191)
LlmRetry ==
    /\ pc = "query_with_retry"
    /\ llm.attempt < LlmAttempts
    /\ calls' = Call("generation")
    /\ llm' = [llm EXCEPT !.attempt = @ + 1,
                          !.sleeps = Append(@, Backoff(llm.attempt))]
    /\ UNCHANGED <<api, question, as_of_date, top_k, item_limit, credentials, store,
                   pc, st, visits, outcome, fin, fout>>

\* the last call fails: a timeout raises RuntimeError("llm_timeout"), any
\* other failure is raised as it is (answering.py:185-190); the exception
\* reaches answer_question's handlers, or leaves retrieve_evidence_node,
\* which has none
LlmGivesUp ==
    /\ pc = "query_with_retry"
    /\ llm.attempt >= LlmAttempts
    /\ \E error \in {"llm_timeout", "backend_error"} :
        outcome' = IF api = "orchestrated" THEN OrchestratedOnException(error)
                   ELSE AnswerOnException(error)
    /\ calls' = Call("generation")
    /\ llm' = IdleLlm
    /\ pc' = "done"
    /\ UNCHANGED <<api, question, as_of_date, top_k, item_limit, credentials, store,
                   st, visits, fin, fout>>

----------------------------------------------------------------------------
(* The two produced interfaces *)

Next ==
    \/ OrchestratedStart
    \/ plan_node
    \/ resolve_temporal_node
    \/ retrieve_evidence_node
    \/ verify_citations_node
    \/ guardrail_node
    \/ respond_node
    \/ AnswerStart
    \/ AnswerRetrieve
    \/ LlmReturns
    \/ LlmRetry
    \/ LlmGivesUp

Spec == Init /\ [][Next]_vars

----------------------------------------------------------------------------
(* validate_answer on its own *)

\* pieces of mapped answer text: single characters and whole citation groups
ValidateChunks == {
    <<"w">>, <<"nl">>, <<"sp">>, <<"[">>, <<"]">>, <<",">>, <<"p1">>,
    <<"[", "p1", "]">>, <<"[", "p2", "]">>, <<"[", "p9", "]">> }

RECURSIVE ValidateTexts(_)
ValidateTexts(n) ==
    IF n = 0 THEN {<<>>}
    ELSE ValidateTexts(n - 1)
         \cup {t \o c : t \in ValidateTexts(n - 1), c \in ValidateChunks}

\* "A [p1].\n\nB [p2].", "A [p1].\n\nB." and "A [p9]."
ValidateExamples == {
    <<"w", "sp", "[", "p1", "]", "w", "nl", "nl", "w", "sp", "[", "p2", "]", "w">>,
    <<"w", "sp", "[", "p1", "]", "w", "nl", "nl", "w">>,
    <<"w", "sp", "[", "p9", "]", "w">> }

RetrievedIdSets == {{}, {"p1"}, {"p1", "p2"}}

\* the variables of a request, unused by the function harnesses
IdleRequest ==
    /\ question = <<>>
    /\ as_of_date = NoDate
    /\ top_k = 0
    /\ item_limit = 0
    /\ credentials = FALSE
    /\ st = InitialState
    /\ llm = IdleLlm
    /\ calls = NoCalls
    /\ visits = NoVisits
    /\ outcome = Running

InitValidate ==
    /\ api = "validate"
    /\ IdleRequest
    /\ store = StoreC
    /\ pc = "call"
    /\ fin \in [text : ValidateTexts(MaxTextLen) \cup ValidateExamples,
                retrieved_ids : RetrievedIdSets]
    /\ fout = <<>>

ValidateCall ==
    /\ api = "validate" /\ pc = "call"
    /\ fout' = [valid |-> validate_answer(fin.text, fin.retrieved_ids)]
    /\ pc' = "done"
    /\ UNCHANGED <<api, question, as_of_date, top_k, item_limit, credentials, store,
                   st, llm, calls, visits, outcome, fin>>

NextValidate == ValidateCall

SpecValidate == InitValidate /\ [][NextValidate]_vars

----------------------------------------------------------------------------
(* get_valid_version on its own *)

\* most Expressions a store of the harness holds
MaxExpressions == 3

\* W1: E1 then E2 follow each other; E3 shares E1's last day and E2's first
\* months; E5 lies inside E2.  W2: E4.
ExpressionPool == {
    [expression_id |-> "E1", work_id |-> "W1",
     valid_from |-> <<2020, 1, 1>>, valid_to |-> <<2021, 12, 31>>],
    [expression_id |-> "E2", work_id |-> "W1",
     valid_from |-> <<2022, 1, 1>>, valid_to |-> NULL],
    [expression_id |-> "E3", work_id |-> "W1",
     valid_from |-> <<2021, 12, 31>>, valid_to |-> <<2022, 6, 30>>],
    [expression_id |-> "E4", work_id |-> "W2",
     valid_from |-> <<2021, 1, 1>>, valid_to |-> <<2021, 12, 31>>],
    [expression_id |-> "E5", work_id |-> "W1",
     valid_from |-> <<2024, 2, 29>>, valid_to |-> <<2024, 2, 29>>] }

VersionStores ==
    {[expressions |-> X,
      articles |-> {[article_id |-> "A1", expression_id |-> "E1"],
                    [article_id |-> "A3", expression_id |-> "E3"]},
      paragraphs |-> {[paragraph_id |-> "p1", article_id |-> "A1",
                       score |-> 1, keyword |-> TRUE]},
      ranked |-> <<>>] :
        X \in {Y \in SUBSET ExpressionPool : Cardinality(Y) <= MaxExpressions}}

References == {
    UrnRef("work", "W1"), UrnRef("work", "W2"), UrnRef("work", "W9"),
    UrnRef("expression", "E1"), UrnRef("expression", "E3"),
    UrnRef("article", "A1"), UrnRef("article", "A3"),
    UrnRef("paragraph", "p1"), UrnRef("foo", "W1"), PlainRef("W1") }

TargetDates == {
    YmdStr(4, 2019, 12, 31), YmdStr(4, 2020, 1, 1), YmdStr(4, 2021, 12, 30),
    YmdStr(4, 2021, 12, 31), YmdStr(4, 2022, 1, 1), YmdStr(4, 2022, 6, 30),
    YmdStr(4, 2022, 7, 1), YmdStr(4, 2024, 2, 29),
    YmdStr(4, 2023, 2, 29), YmdStr(4, 2021, 13, 1), YmdStr(4, 2021, 12, 0),
    YmdStr(4, 0, 1, 1), YmdStr(3, 999, 12, 31), YearStr(4, 2021),
    WordStr("not-a-date") }

InitVersion ==
    /\ api = "version"
    /\ IdleRequest
    /\ store \in VersionStores
    /\ pc = "call"
    /\ fin \in [component_id : References, target_date : TargetDates]
    /\ fout = <<>>

VersionCall ==
    /\ api = "version" /\ pc = "call"
    /\ fout' = get_valid_version(store, fin.component_id, fin.target_date)
    /\ pc' = "done"
    /\ UNCHANGED <<api, question, as_of_date, top_k, item_limit, credentials, store,
                   st, llm, calls, visits, outcome, fin>>

NextVersion == VersionCall

SpecVersion == InitVersion /\ [][NextVersion]_vars

----------------------------------------------------------------------------
(* Properties *)

Orchestrated == api = "orchestrated"

\* the request ended with a response / with an exception
HasResponse == outcome.kind = "returned"
HasRaised == outcome.kind = "raised"

\* Respond ran: the response is the one respond_node built
Responded == Orchestrated /\ HasResponse /\ visits.respond = 1

\* the blank-line-separated segments of a text that hold any text
Segments(text) == StripNonEmpty(SplitBlank(text))

\* every paragraph id retrieved by some attempt of the request
RetrievedInRequest(items) ==
    UNION {SeqRange(items[n].paragraphs) : n \in 1..Len(items)}

\* C1: groundedness of orchestrated_answer.  Whenever the returned answer is
\* neither the sentinel nor the advisory refusal, citations_valid and
\* guardrail_passed are true, every segment of the answer carries a
\* citation, and every citation of the answer and of the citations list is a
\* paragraph id retrieved in the request.
C1_Groundedness ==
    (/\ Orchestrated /\ HasResponse
     /\ outcome.response.answer \notin {INSUFFICIENT_MESSAGE, REFUSAL_MESSAGE})
    => LET r == outcome.response
           retrieved == RetrievedInRequest(r.retrieved_items)
       IN  /\ r.verification_results.citations_valid
           /\ r.verification_results.guardrail_passed
           /\ \A n \in 1..Len(Segments(r.answer)) :
                  extract_citations(Segments(r.answer)[n]) # <<>>
           /\ \A c \in SeqRange(extract_citations(r.answer)) :
                  Len(c) = 1 /\ c[1] \in retrieved
           /\ r.citations # <<>>
           /\ SeqRange(r.citations) \subseteq retrieved

\* a grounded answer of two segments citing two retrieved paragraphs
C1_Witness ==
    /\ Responded
    /\ outcome.response.answer \notin {INSUFFICIENT_MESSAGE, REFUSAL_MESSAGE}
    /\ Len(Segments(outcome.response.answer)) = 2
    /\ outcome.response.citations = <<"p1", "p2">>

\* the third verification of the run failed like the two before it
ThirdVerificationFailed ==
    /\ Orchestrated
    /\ pc = "output_guardrail"
    /\ visits.verify_citations = MaxRetrievalAttempts
    /\ ~st.verification_results.citations_valid

SentinelResponse ==
    /\ Responded
    /\ outcome.response.answer = INSUFFICIENT_MESSAGE
    /\ outcome.response.citations = <<>>

\* C2: retry bound.  A run whose citation validation failed on every attempt
\* has entered RetrieveEvidence exactly 3 times when it responds; after the
\* third failed verification the guardrail and then Respond are the only
\* steps left, both can be taken, and the response is the sentinel with no
\* citations.
C2_RetryBound ==
    /\ [](Responded /\ ~outcome.response.verification_results.citations_valid
            => /\ visits.retrieve_evidence = 3
               /\ visits.verify_citations = 3
               /\ outcome.response.answer = INSUFFICIENT_MESSAGE
               /\ outcome.response.citations = <<>>)
    /\ [](Orchestrated /\ pc = "retrieve_evidence" => visits.retrieve_evidence < 3)
    /\ [](Orchestrated /\ pc = "output_guardrail"
            /\ ~st.verification_results.citations_valid
            => ThirdVerificationFailed /\ visits.retrieve_evidence = 3
               /\ ENABLED guardrail_node)
    /\ [][ThirdVerificationFailed
            => /\ pc' = "respond"
               /\ ~st'.verification_results.citations_valid
               /\ (ENABLED respond_node)']_vars
    /\ [][(Orchestrated /\ pc = "respond" /\ ~st.verification_results.citations_valid)
            => (SentinelResponse /\ visits.retrieve_evidence = 3)']_vars

\* three failed attempts, the last one with evidence and a generated draft
C2_Witness ==
    /\ SentinelResponse
    /\ visits.retrieve_evidence = 3
    /\ calls.generation >= 3
    /\ outcome.response.verification_results.retrieved_ids # <<>>

\* an orchestrated request that is not refused at the gate
Informational == Orchestrated /\ classify_request(question) = "informational"

\* the request ended by an exception of the generation capability
GenerationFailed ==
    HasRaised /\ outcome.error \in {"llm_timeout", "backend_error"}

\* steps the request can still take at most: the loop body is one entry of
\* RetrieveEvidence, at most LlmAttempts generation calls and one
\* verification
LoopBody == LlmAttempts + 2

Rank ==
    IF pc = "done" THEN 0
    ELSE IF api = "answer"
    THEN (CASE pc = "start" -> LlmAttempts + 2
            [] pc = "answer_retrieve" -> LlmAttempts + 1
            [] pc = "query_with_retry" -> LlmAttempts + 1 - llm.attempt)
    ELSE LET left == MaxRetrievalAttempts - st.retrieval_attempts
         IN  CASE pc = "start" -> MaxRetrievalAttempts * LoopBody + 5
               [] pc = "plan" -> MaxRetrievalAttempts * LoopBody + 4
               [] pc = "resolve_temporal_scope" -> MaxRetrievalAttempts * LoopBody + 3
               [] pc = "retrieve_evidence" -> left * LoopBody + 2
               [] pc = "query_with_retry" -> left * LoopBody + 2 - llm.attempt
               [] pc = "verify_citations" -> left * LoopBody + 3
               [] pc = "output_guardrail" -> 2
               [] pc = "respond" -> 1

\* a RetrieveEvidence visit that has not returned its patch: generation is in
\* flight, or an exception left the node
OpenVisit ==
    IF pc = "query_with_retry" \/ (HasRaised /\ visits.retrieve_evidence > 0)
    THEN 1 ELSE 0

\* the position is the guard of a handler or of a generation step: the
\* handlers have no other condition, and a generation call can always fail
\* or time out whatever the capability would answer
AtHandler ==
    IF api = "answer"
    THEN pc \in {"start", "answer_retrieve", "query_with_retry"}
    ELSE /\ Orchestrated
         /\ pc \in {"start", "plan", "resolve_temporal_scope", "retrieve_evidence",
                    "query_with_retry", "verify_citations", "output_guardrail",
                    "respond"}

C4_AdvisoryGate ==
    (api \in {"answer", "orchestrated"} /\ classify_request(question) = "advisory")
    => /\ calls = NoCalls
       /\ visits = NoVisits
       /\ pc \in {"start", "done"}
       /\ pc = "done" => /\ HasResponse
                         /\ outcome.response.answer = REFUSAL_MESSAGE
                         /\ outcome.response.citations = <<>>

\* an advisory question was refused by orchestrated_answer
C4_Witness ==
    /\ Orchestrated
    /\ classify_request(question) = "advisory"
    /\ HasResponse
    /\ outcome.response.answer = REFUSAL_MESSAGE

\* C5: in the orchestrator a failure of the generation capability (timeout
\* after the adapter's retries, or a backend error) is not propagated to the
\* caller: the attempt's draft becomes the sentinel and the run goes on to
\* VerifyCitations.
C5_GenerationFailureContained ==
    Orchestrated => ~GenerationFailed

\* C6: in answer() a generation timeout that outlasts the adapter's retries
\* is surfaced as the sentinel response, never raised.
C6_TimeoutGivesSentinel ==
    api = "answer" => ~(HasRaised /\ outcome.error = "llm_timeout")

\* C7: a missing api key is fatal.  Once answer or orchestrated_answer reaches
\* generation without credentials the request has ended with
\* openai_api_key_missing raised to the caller; no generation call is ever
\* made, build_llm is reached once and the RetrieveEvidence visit that
\* reached it is the last and is not followed by a verification (no retry on
\* either axis), and the response is never the sentinel.
C7_ConfigurationErrorFatal ==
    (api \in {"answer", "orchestrated"} /\ ~credentials)
    => /\ calls.generation = 0
       /\ pc # "query_with_retry"
       /\ calls.build_llm <= 1
       /\ calls.build_llm = 1
            => /\ pc = "done"
               /\ outcome = Raised("openai_api_key_missing")
               /\ Orchestrated =>
                    visits.verify_citations = visits.retrieve_evidence - 1

\* answer() reached generation without an api key
C7_Witness ==
    /\ api = "answer"
    /\ ~credentials
    /\ calls.build_llm = 1
    /\ HasRaised

\* C8: every response whose answer is the sentinel has an empty citations
\* list, for orchestrated_answer and for answer().
C8_SentinelHasNoCitations ==
    (HasResponse /\ outcome.response.answer = INSUFFICIENT_MESSAGE)
    => outcome.response.citations = <<>>

\* Respond returned the sentinel although paragraphs had been retrieved
C8_Witness ==
    /\ SentinelResponse
    /\ outcome.response.verification_results.retrieved_ids # <<>>

\* days since a fixed origin, on a calendar of 31-day months: an order of
\* date values
DayNumber(dt) == (dt[1] * 12 + dt[2]) * 31 + dt[3]

\* the inclusive interval [valid_from, valid_to] of e holds the day dt
Covers(e, dt) ==
    /\ DayNumber(e.valid_from) <= DayNumber(dt)
    /\ (e.valid_to # NULL => DayNumber(dt) <= DayNumber(e.valid_to))

\* the intervals of two Expressions share a day
Overlap(e1, e2) ==
    /\ (e2.valid_to # NULL => DayNumber(e1.valid_from) <= DayNumber(e2.valid_to))
    /\ (e1.valid_to # NULL => DayNumber(e2.valid_from) <= DayNumber(e1.valid_to))

\* the Expressions of a Work have pairwise non-overlapping intervals
NonOverlapping(s, work_id) ==
    \A e1, e2 \in {e \in s.expressions : e.work_id = work_id} :
        e1 # e2 => ~Overlap(e1, e2)

VersionError(error) == [ok |-> FALSE, error |-> error]

\* C9: get_valid_version, for any reference and target date.  A target date
\* that is not a well-formed date gives invalid_target_date.  Otherwise the
\* Expressions reached from the reference whose inclusive interval (null
\* valid_to = open-ended) holds the date are selected: exactly one gives that
\* Expression, none gives expression_not_found, more than one gives
\* multiple_expressions_found.  A work reference to a Work with pairwise
\* non-overlapping intervals never gives multiple_expressions_found.
C9_ResolveValidVersion ==
    (api = "version" /\ pc = "done")
    => IF ~IsIsoDate(fin.target_date)
       THEN fout = VersionError("invalid_target_date")
       ELSE LET parsed == parse_component_id(fin.component_id)
                selected == {e \in MatchRoot(store, parsed[1], parsed[2]) :
                                Covers(e, FromIso(fin.target_date))}
            IN  /\ selected = {} <=> fout = VersionError("expression_not_found")
                /\ Cardinality(selected) > 1
                     <=> fout = VersionError("multiple_expressions_found")
                /\ Cardinality(selected) = 1
                     <=> fout.ok /\ fout.record \in selected
                /\ (fin.component_id.form = "urn" /\ parsed[1] = "work"
                        /\ NonOverlapping(store, parsed[2]))
                     => fout # VersionError("multiple_expressions_found")

\* the last day of E1 resolves to E1 in a Work of three Expressions whose
\* intervals do not overlap
C9_Witness ==
    /\ api = "version" /\ pc = "done"
    /\ fin.component_id = UrnRef("work", "W1")
    /\ fin.target_date = YmdStr(4, 2021, 12, 31)
    /\ Cardinality(store.expressions) = 3
    /\ NonOverlapping(store, "W1")
    /\ fout.ok /\ fout.record.expression_id = "E1"

\* C10: validate_answer(text, retrieved_ids) is true exactly when the text,
\* split on blank lines, has at least one non-empty segment, every such
\* segment holds at least one citation, and every citation of every segment
\* is one of retrieved_ids.
C10_ValidateAnswer ==
    (api = "validate" /\ pc = "done")
    => LET segments == Segments(fin.text)
       IN  fout.valid
           <=> /\ Len(segments) >= 1
               /\ \A n \in 1..Len(segments) :
                      \E i, j \in 1..Len(segments[n]) :
                          /\ i < j - 1
                          /\ segments[n][i] = "[" /\ segments[n][j] = "]"
                          /\ \A k \in (i + 1)..(j - 1) : segments[n][k] # "]"
                          /\ \E k \in (i + 1)..(j - 1) :
                                 ~IsSpace(segments[n][k]) /\ segments[n][k] # ","
               /\ \A n \in 1..Len(segments) :
                      \A c \in SeqRange(extract_citations(segments[n])) :
                          Len(c) = 1 /\ c[1] \in fin.retrieved_ids

\* "A [p1].\n\nB [p2]." is valid for {p1, p2}
C10_Witness ==
    /\ api = "validate" /\ pc = "done"
    /\ Len(Segments(fin.text)) = 2
    /\ fin.retrieved_ids = {"p1", "p2"}
    /\ Len(fin.text) > MaxTextLen
    /\ fout.valid

----------------------------------------------------------------------------
(* map_citations on its own *)

\* pieces of raw generated text: single characters and whole marker groups
MapChunks == {
    <<"w">>, <<"sp">>, <<"[">>, <<"]">>, <<",">>, <<"1">>, <<"0">>,
    <<"[", "1", "]">>, <<"[", "2", "]">>, <<"[", "3", "]">>,
    <<"[", "1", ",", "sp", "2", "]">>, <<"[", "1", ",", "sp", "3", "]">>,
    <<"[", "1", "2", "]">> }

RECURSIVE MapTexts(_)
MapTexts(n) ==
    IF n = 0 THEN {<<>>}
    ELSE MapTexts(n - 1) \cup {t \o c : t \in MapTexts(n - 1), c \in MapChunks}

\* response.source_nodes as the paragraph ids of the nodes, in order
SourceLists == {<<>>, <<"p1">>, <<"p1", "p2">>, <<"p2", "p1">>}

InitMap ==
    /\ api = "map"
    /\ IdleRequest
    /\ store = StoreC
    /\ pc = "call"
    /\ fin \in [text : MapTexts(MaxChunks), sources : SourceLists]
    /\ fout = <<>>

MapCall ==
    /\ api = "map" /\ pc = "call"
    /\ fout' = map_citations(fin.text, fin.sources)
    /\ pc' = "done"
    /\ UNCHANGED <<api, question, as_of_date, top_k, item_limit, credentials, store,
                   st, llm, calls, visits, outcome, fin>>

NextMap == MapCall

SpecMap == InitMap /\ [][NextMap]_vars

\* the numbers of every citation-marker group of a text, from position i on
RECURSIVE MarkerNumbers(_, _)
MarkerNumbers(text, i) ==
    IF i > Len(text) THEN <<>>
    ELSE IF MarkerEnd(text, i) > 0
         THEN Numbers(SubSeq(text, i, MarkerEnd(text, i)), 1)
              \o MarkerNumbers(text, MarkerEnd(text, i) + 1)
         ELSE MarkerNumbers(text, i + 1)

\* C11: map_citations(text, ordered_sources).  The invalid flag is true
\* exactly when some marker number of the text is outside
\* 1..len(ordered_sources), and no marker number inside that range is left in
\* the returned text: each has been replaced by its paragraph id.
C11_MapCitations ==
    (api = "map" /\ pc = "done")
    => LET range == 1..Len(fin.sources)
       IN  /\ fout.invalid
                <=> \E n \in SeqRange(MarkerNumbers(fin.text, 1)) : n \notin range
           /\ \A n \in SeqRange(MarkerNumbers(fout.text, 1)) : n \notin range

----------------------------------------------------------------------------
(* search_text_units on its own *)

\* largest top_k of the harness
MaxTopK == 2

\* similarity of paragraph n to the query: rising with the id, falling with
\* it, or the same for all
ScoreOrders == {"rising", "falling", "flat"}

ScoreOf(order, n) ==
    CASE order = "rising" -> n
      [] order = "falling" -> Len(ParagraphOrder) + 1 - n
      [] OTHER -> 1

\* an index of seven paragraphs, each owned by E1 (article A1) or by E2
\* (article A2), each holding the query text or not
FusionStores ==
    {[expressions |-> {},
      articles |-> {[article_id |-> "A1", expression_id |-> "E1"],
                    [article_id |-> "A2", expression_id |-> "E2"]},
      paragraphs |-> {[paragraph_id |-> ParagraphOrder[n],
                       article_id |-> IF n \in own THEN "A1" ELSE "A2",
                       score |-> ScoreOf(order, n),
                       keyword |-> n \in kw] : n \in 1..Len(ParagraphOrder)},
      ranked |-> <<>>] :
        own \in SUBSET (1..Len(ParagraphOrder)),
        kw \in SUBSET (1..Len(ParagraphOrder)),
        order \in ScoreOrders}

InitFusion ==
    /\ api = "fusion"
    /\ IdleRequest
    /\ store \in FusionStores
    /\ pc = "call"
    /\ fin \in [expression_id : {"E1"}, query : {<<"w">>}, top_k : 1..MaxTopK]
    /\ fout = <<>>

FusionCall ==
    /\ api = "fusion" /\ pc = "call"
    /\ fout' = search_text_units(store, fin.expression_id, fin.query, fin.top_k)
    /\ pc' = "done"
    /\ UNCHANGED <<api, question, as_of_date, top_k, item_limit, credentials, store,
                   st, llm, calls, visits, outcome, fin>>

NextFusion == FusionCall

SpecFusion == InitFusion /\ [][NextFusion]_vars

\* V: the ids of the vector results, in vector order
VectorIds ==
    ParagraphIds(VectorRows(store, fin.expression_id, 3 * fin.top_k, fin.top_k))

\* L: the ids of the Expression's paragraphs that hold the query text
LexicalIds ==
    {p.paragraph_id : p \in {q \in ParagraphsOf(store, fin.expression_id) : q.keyword}}

\* C12: hybrid fusion with top_k >= 1 and a non-empty query.  The result is
\* V in vector order, followed only when |V| < top_k by the paragraphs of L
\* not in V, lowest paragraph ids first, cut at top_k: no paragraph id
\* occurs twice, every item belongs to the target Expression, and the length
\* is min(top_k, |V union L|).
C12_HybridFusion ==
    (api = "fusion" /\ pc = "done")
    => LET ids == ParagraphIds(fout)
           V == VectorIds
           L == LexicalIds
           tail == {ids[n] : n \in (Len(V) + 1)..Len(ids)}
       IN  /\ Len(V) <= fin.top_k
           /\ Len(ids) >= Len(V) /\ SubSeq(ids, 1, Len(V)) = V
           /\ Len(V) >= fin.top_k => ids = V
           /\ tail \subseteq L \ SeqRange(V)
           /\ \A n \in (Len(V) + 1)..(Len(ids) - 1) :
                  PidIndex(ids[n]) < PidIndex(ids[n + 1])
           /\ \A x \in tail, y \in L \ SeqRange(V) :
                  PidIndex(y) < PidIndex(x) => y \in tail
           /\ Cardinality(SeqRange(ids)) = Len(ids)
           /\ \A n \in 1..Len(fout) :
                  /\ fout[n].expression_id = fin.expression_id
                  /\ \E p \in ParagraphsOf(store, fin.expression_id) :
                         p.paragraph_id = fout[n].paragraph_id
           /\ Len(ids) = Min(fin.top_k, Cardinality(SeqRange(V) \cup L))

\* the vector pass found one of top_k = 2, the lexical pass found that one
\* again and another: the result is the vector hit and the new paragraph
C12_Witness ==
    /\ api = "fusion" /\ pc = "done"
    /\ fin.top_k = 2
    /\ Len(VectorIds) = 1
    /\ VectorIds[1] \in LexicalIds
    /\ Cardinality(LexicalIds) = 2
    /\ Len(fout) = 2
    /\ fout[1].retrieval_mode = "vector" /\ fout[2].retrieval_mode = "keyword"

----------------------------------------------------------------------------
(* search_text_units with capabilities that can fail *)

\* which capability raises during the call, if any
Failures == {"none", "embed_text", "vector_query", "keyword_query"}

\* search_text_units (actions.py:102-146) as the caller sees it: what it
\* returns or raises, and how often it called embed_text and session.run.
\* No call of the function is inside a try.
search_text_units_outcome(s, expression_id, semantic_query, k, failure) ==
    IF Strip(semantic_query) = <<>>
    THEN [kind |-> "returned", value |-> <<>>, embed_calls |-> 0, store_calls |-> 0]
    ELSE IF failure = "embed_text"
    THEN [kind |-> "raised", error |-> "embed_text", embed_calls |-> 1, store_calls |-> 0]
    ELSE IF failure = "vector_query"
    THEN [kind |-> "raised", error |-> "session_run", embed_calls |-> 1, store_calls |-> 1]
    ELSE LET results == normalize_paragraph_results(
                            VectorRows(s, expression_id, Max(k, 1) * 3, Max(k, 1)),
                            expression_id, "vector")
         IN  IF Len(results) >= Max(k, 1)
             THEN [kind |-> "returned", value |-> results,
                   embed_calls |-> 1, store_calls |-> 1]
             ELSE IF failure = "keyword_query"
             THEN [kind |-> "raised", error |-> "session_run",
                   embed_calls |-> 1, store_calls |-> 2]
             ELSE [kind |-> "returned",
                   value |-> Fuse(results, keyword_search(s, expression_id, Max(k, 1)),
                                  Max(k, 1)),
                   embed_calls |-> 1, store_calls |-> 2]

InitRetrieval ==
    /\ api = "retrieval"
    /\ IdleRequest
    /\ store \in Stores
    /\ pc = "call"
    /\ fin \in [expression_id : {"E1", "E2", "E3"},
                query : {<<>>, <<"sp">>, <<"w">>, <<"sp", "w", "sp">>},
                top_k : 0..MaxTopK,
                failure : Failures]
    /\ fout = <<>>

RetrievalCall ==
    /\ api = "retrieval" /\ pc = "call"
    /\ fout' = search_text_units_outcome(store, fin.expression_id, fin.query,
                                         fin.top_k, fin.failure)
    /\ pc' = "done"
    /\ UNCHANGED <<api, question, as_of_date, top_k, item_limit, credentials, store,
                   st, llm, calls, visits, outcome, fin>>

NextRetrieval == RetrievalCall

SpecRetrieval == InitRetrieval /\ [][NextRetrieval]_vars

\* C13: the hybrid retrieval stage never fails.  An empty query returns an
\* empty result without a call of the embedding function or of the store,
\* and every call returns a result to its caller, whatever capability failed.
C13_RetrievalNeverFails ==
    (api = "retrieval" /\ pc = "done")
    => /\ Strip(fin.query) = <<>>
            => /\ fout.kind = "returned" /\ fout.value = <<>>
               /\ fout.embed_calls = 0 /\ fout.store_calls = 0
       /\ fout.kind = "returned"

----------------------------------------------------------------------------
(* The two retry axes *)

\* the candidate and the paragraphs RetrieveEvidence attempt a works on
EvidenceOfAttempt(a) ==
    LET items == search_items(store, question, item_limit)
        selected == items[Min(a - 1, Len(items) - 1) + 1]
    IN  [selected |-> selected.urn,
         paragraphs |-> search_text_units(store, llm.expression_id, question,
                                          top_k + 2 * (a - 1))]

\* C14: the two retry axes are independent.  A retry inside the generation
\* adapter calls again with the same paragraphs and changes neither the
\* attempt counter, top_k, the selected candidate nor the visits; every
\* generation call of RetrieveEvidence attempt a works on candidate
\* min(a - 1, last) and top_k + 2 (a - 1) paragraphs; and RetrieveEvidence is
\* entered again only from VerifyCitations after a failed validation, never
\* from the adapter.
C14_RetryAxesIndependent ==
    /\ [][(pc = "query_with_retry" /\ pc' = "query_with_retry")
            => /\ llm'.attempt = llm.attempt + 1
               /\ llm'.paragraphs = llm.paragraphs
               /\ llm'.selected = llm.selected
               /\ llm'.expression_id = llm.expression_id
               /\ st' = st /\ top_k' = top_k /\ question' = question
               /\ visits' = visits]_vars
    /\ [](Orchestrated /\ pc = "query_with_retry"
            => /\ st.retrieval_attempts = visits.retrieve_evidence - 1
               /\ llm.selected = EvidenceOfAttempt(visits.retrieve_evidence).selected
               /\ llm.paragraphs = EvidenceOfAttempt(visits.retrieve_evidence).paragraphs)
    /\ [][(Orchestrated /\ pc = "query_with_retry")
            => /\ pc' \in {"query_with_retry", "verify_citations", "done"}
               /\ visits'.retrieve_evidence = visits.retrieve_evidence]_vars
    /\ [][(Orchestrated /\ pc' = "retrieve_evidence" /\ visits.retrieve_evidence > 0)
            => /\ pc = "verify_citations"
               /\ ~st'.verification_results.citations_valid
               /\ st'.retrieval_attempts = visits.retrieve_evidence]_vars

\* the second RetrieveEvidence attempt, its generation call being retried
C14_Witness ==
    /\ Orchestrated
    /\ pc = "query_with_retry"
    /\ llm.attempt = 2
    /\ visits.retrieve_evidence = 2
    /\ st.retrieval_attempts = 1
    /\ calls.generation >= 2

----------------------------------------------------------------------------
(* query_with_retry with its worker thread *)

\* settings.llm_timeout_seconds, in ticks of the harness clock
TimeoutTicks == 2

\* longest generation call of the harness, in ticks
MaxDuration == 4

\* fin.durations[n]: how long the n-th call of query_engine.query runs
\* fout.attempt     : attempt of the for loop (answering.py:180)
\* fout.worker      : the thread of the executor: idle, running or finished
\* fout.clock       : ticks since the call was submitted
\* fout.result      : none, returned or raised
InitAdapter ==
    /\ api = "adapter"
    /\ IdleRequest
    /\ store = StoreC
    /\ pc = "submit"
    /\ fin \in [durations : [1..LlmAttempts -> 1..MaxDuration]]
    /\ fout = [attempt |-> 1, worker |-> "idle", clock |-> 0, sleeps |-> <<>>,
               result |-> "none"]

AdapterUnchanged ==
    UNCHANGED <<api, question, as_of_date, top_k, item_limit, credentials, store,
                st, llm, calls, visits, outcome, fin>>

\* executor.submit(query_engine.query, query_text) (answering.py:182-183)
AdapterSubmit ==
    /\ api = "adapter" /\ pc = "submit"
    /\ fout' = [fout EXCEPT !.worker = "running", !.clock = 0]
    /\ pc' = "future_result"
    /\ AdapterUnchanged

\* time passes while the call runs; future.result does not wait beyond the
\* timeout
AdapterTick ==
    /\ api = "adapter" /\ fout.worker = "running"
    /\ fout.clock < fin.durations[fout.attempt]
    /\ pc = "future_result" => fout.clock < TimeoutTicks
    /\ fout' = [fout EXCEPT !.clock = @ + 1]
    /\ UNCHANGED pc
    /\ AdapterUnchanged

\* query_engine.query returns in the worker thread
WorkerFinishes ==
    /\ api = "adapter" /\ fout.worker = "running"
    /\ fout.clock = fin.durations[fout.attempt]
    /\ fout' = [fout EXCEPT !.worker = "finished"]
    /\ UNCHANGED pc
    /\ AdapterUnchanged

\* future.result(timeout=...) returns the response; leaving the with block
\* finds the worker finished (answering.py:184)
ResultReturns ==
    /\ api = "adapter" /\ pc = "future_result"
    /\ fout.worker = "finished"
    /\ fout' = [fout EXCEPT !.result = "returned", !.worker = "idle"]
    /\ pc' = "done"
    /\ AdapterUnchanged

\* future.result raises TimeoutError inside the with block: the block is
\* left through ThreadPoolExecutor.__exit__, which is shutdown(wait=True)
ResultTimesOut ==
    /\ api = "adapter" /\ pc = "future_result"
    /\ fout.worker = "running"
    /\ fout.clock = TimeoutTicks
    /\ pc' = "executor_exit"
    /\ UNCHANGED fout
    /\ AdapterUnchanged

\* shutdown(wait=True) returns once the worker thread has ended; the
\* exception then reaches the except clause (answering.py:185)
ExecutorExit ==
    /\ api = "adapter" /\ pc = "executor_exit"
    /\ fout.worker = "finished"
    /\ pc' = "except_timeout"
    /\ UNCHANGED fout
    /\ AdapterUnchanged

\* except TimeoutError with an attempt left: sleep, next attempt
\* (answering.py:186, 191)
ExceptRetry ==
    /\ api = "adapter" /\ pc = "except_timeout"
    /\ fout.attempt < LlmAttempts
    /\ fout' = [fout EXCEPT !.attempt = @ + 1, !.worker = "idle", !.clock = 0,
                            !.sleeps = Append(@, Backoff(fout.attempt))]
    /\ pc' = "submit"
    /\ AdapterUnchanged

\* except TimeoutError on the last attempt: RuntimeError("llm_timeout")
\* (answering.py:186-187)
ExceptRaise ==
    /\ api = "adapter" /\ pc = "except_timeout"
    /\ fout.attempt >= LlmAttempts
    /\ fout' = [fout EXCEPT !.result = "raised"]
    /\ pc' = "done"
    /\ AdapterUnchanged

NextAdapter ==
    \/ AdapterSubmit \/ AdapterTick \/ WorkerFinishes \/ ResultReturns
    \/ ResultTimesOut \/ ExecutorExit \/ ExceptRetry \/ ExceptRaise

SpecAdapter == InitAdapter /\ [][NextAdapter]_vars

\* C15: a generation call still running at the timeout is aborted promptly.
\* Control is back in the retry loop at the timeout, whether or not the
\* worker of the call in flight has finished.
C15_PromptAbort ==
    (api = "adapter" /\ pc = "except_timeout") => fout.clock = TimeoutTicks

----------------------------------------------------------------------------
(* Two concurrent runs of run_orchestrated_query *)

(* The variables of a request hold the run that is executing; fout holds the *)
(* other run, suspended.  fin.inputs are the two requests, each with the     *)
(* outcomes its generation calls will have; fin.alone is the outcome of      *)
(* request 1 when it ran with no other run beside it.                        *)

Valid == [kind |-> "text", raw |-> <<"w", "[", "1", "]">>]
Uncited == [kind |-> "text", raw |-> <<"w">>]
TimedOut == [kind |-> "fail", error |-> "llm_timeout"]

\* outcomes of the generation calls of a run, in order; the last one repeats
Scripts == {
    <<Valid>>,
    <<Uncited, Valid>>,
    <<TimedOut, Uncited, TimedOut, TimedOut, Valid>>,
    <<Uncited>>,
    <<Uncited, TimedOut>> }

RunInputs ==
    [question : {<<"Summarize", "sp", "MiCA">>}, as_of_date : {YmdStr(4, 2024, 2, 29)},
     top_k : TopKs, item_limit : {5}, credentials : {TRUE}, script : Scripts]
    \cup [question : {<<"Tell", "sp", "me", "sp", "what", "sp", "to", "sp", "do">>},
          as_of_date : {YmdStr(4, 2024, 2, 29)}, top_k : {1}, item_limit : {5},
          credentials : {TRUE}, script : {<<Valid>>}]

\* a run at its start: run_orchestrated_query builds initial_state anew
\* (orchestration.py:248-260)
FreshRun(input) ==
    [question |-> input.question, as_of_date |-> input.as_of_date,
     top_k |-> input.top_k, item_limit |-> input.item_limit,
     credentials |-> input.credentials, pc |-> "start", st |-> InitialState,
     llm |-> IdleLlm, calls |-> NoCalls, visits |-> NoVisits, outcome |-> Running]

\* the run that is executing, as a record
ThisRun ==
    [question |-> question, as_of_date |-> as_of_date, top_k |-> top_k,
     item_limit |-> item_limit, credentials |-> credentials, pc |-> pc, st |-> st,
     llm |-> llm, calls |-> calls, visits |-> visits, outcome |-> outcome]

\* the graph state of a run as one state shared by every run
RunStateShared(run) == st

\* the graph state a run works on: the one GRAPH.invoke was given for it
RunState(run) == run.st

\* the thread of a run goes on
Resume(run) ==
    /\ question' = run.question
    /\ as_of_date' = run.as_of_date
    /\ top_k' = run.top_k
    /\ item_limit' = run.item_limit
    /\ credentials' = run.credentials
    /\ pc' = run.pc
    /\ st' = RunState(run)
    /\ llm' = run.llm
    /\ calls' = run.calls
    /\ visits' = run.visits
    /\ outcome' = run.outcome

InitTogether ==
    /\ api = "orchestrated"
    /\ store \in {StoreA, StoreB}
    /\ fin \in [phase : {"alone"}, current : {1}, inputs : RunInputs \X RunInputs,
                alone : {Running}]
    /\ question = fin.inputs[1].question
    /\ as_of_date = fin.inputs[1].as_of_date
    /\ top_k = fin.inputs[1].top_k
    /\ item_limit = fin.inputs[1].item_limit
    /\ credentials = fin.inputs[1].credentials
    /\ pc = "start"
    /\ st = InitialState
    /\ llm = IdleLlm
    /\ calls = NoCalls
    /\ visits = NoVisits
    /\ outcome = Running
    /\ fout = FreshRun(fin.inputs[2])

\* the outcome of the next generation call of the executing run
ScriptedOutcome ==
    LET script == fin.inputs[fin.current].script
    IN  script[Min(calls.generation + 1, Len(script))]

\* a generation call of the executing run ends as its script says
ScriptedGeneration ==
    /\ pc = "query_with_retry"
    /\ IF ScriptedOutcome.kind = "text"
       THEN LlmReturnsWith(ScriptedOutcome.raw)
       ELSE \/ LlmRetry
            \/ LlmGivesUp /\ outcome' = OrchestratedOnException(ScriptedOutcome.error)

\* a step of the executing run
RunStep ==
    \/ OrchestratedStart \/ plan_node \/ resolve_temporal_node
    \/ retrieve_evidence_node \/ verify_citations_node \/ guardrail_node
    \/ respond_node \/ ScriptedGeneration

\* request 1 has run alone: its outcome is kept and both runs start together
AloneEnds ==
    /\ fin.phase = "alone" /\ pc = "done"
    /\ fin' = [fin EXCEPT !.phase = "together", !.alone = outcome]
    /\ Resume(FreshRun(fin.inputs[1]))
    /\ UNCHANGED <<api, store, fout>>

\* the scheduler lets the other run execute
Switch ==
    /\ fin.phase = "together"
    /\ fout.pc # "done"
    /\ fin' = [fin EXCEPT !.current = 3 - @]
    /\ fout' = ThisRun
    /\ Resume(fout)
    /\ UNCHANGED <<api, store>>

NextTogether == RunStep \/ AloneEnds \/ Switch

SpecTogether == InitTogether /\ [][NextTogether]_vars

\* the outcome of request 1 in the concurrent phase
OutcomeOfFirst == IF fin.current = 1 THEN outcome ELSE fout.outcome

BothDone == fin.phase = "together" /\ pc = "done" /\ fout.pc = "done"

StartsEmpty(run) ==
    run.pc \in {"start", "plan"}
    => /\ run.st.retrieval_attempts = 0
       /\ run.st.retrieved_items = <<>>
       /\ run.st.verification_results = EmptyVerification

\* C16: requests are isolated and side-effect-free.  Every run starts from
\* attempt counter 0, empty retrieved_items and empty verification_results;
\* a step of one run leaves the other run as it was; for every interleaving
\* of two runs the outcome of a run is the outcome it has when it runs alone
\* against the same store and generation outcomes; the store is never
\* written.
C16_RunsIsolated ==
    /\ [](StartsEmpty(ThisRun) /\ StartsEmpty(fout))
    /\ [][fin'.current = fin.current /\ fin.phase = "together" => fout' = fout]_vars
    /\ [](BothDone => OutcomeOfFirst = fin.alone)
    /\ [][store' = store]_vars

\* both runs ended, the first after the second, the first with a grounded
\* answer of its second attempt, the second with the sentinel after three
C16_Witness ==
    /\ BothDone
    /\ fin.current = 1
    /\ fout.st.retrieval_attempts = 3
    /\ st.retrieval_attempts = 2
    /\ outcome.kind = "returned"
    /\ outcome.response.answer \notin {INSUFFICIENT_MESSAGE, REFUSAL_MESSAGE}
    /\ fout.outcome.kind = "returned"
    /\ fout.outcome.response.answer = INSUFFICIENT_MESSAGE

----------------------------------------------------------------------------
(* resolve_temporal_scope on its own *)

Years == {0, 1, 9, 10, 99, 100, 999, 1000, 1999, 2000, 2023, 2024, 9999}

\* date strings: bare years of three and four digits, date-shaped strings
\* on and off the calendar, words
ScopeInputs ==
    {YearStr(4, y) : y \in Years} \cup {YearStr(3, y) : y \in {0, 1, 999}}
    \cup {YmdStr(4, y, m, d) : y \in Years, m \in {0, 1, 2, 12, 13},
                               d \in {0, 1, 28, 29, 30, 31, 32}}
    \cup {YmdStr(3, 999, 12, 31)}
    \cup {WordStr(w) : w \in {"current", "last year", "not-a-date", ""}}

InitScope ==
    /\ api = "scope"
    /\ IdleRequest
    /\ store = StoreC
    /\ pc = "call"
    /\ fin \in ScopeInputs
    /\ fout = <<>>

ScopeCall ==
    /\ api = "scope" /\ pc = "call"
    /\ fout' = resolve_temporal_scope(fin)
    /\ pc' = "done"
    /\ UNCHANGED <<api, question, as_of_date, top_k, item_limit, credentials, store,
                   st, llm, calls, visits, outcome, fin>>

NextScope == ScopeCall

SpecScope == InitScope /\ [][NextScope]_vars

\* C17: resolve_temporal_scope on a bare year.  For every four-digit year
\* string Y the result is the interval from Y-01-01 to Y-12-31, both written
\* with the four digits of Y and both well-formed dates that
\* get_valid_version accepts as target dates.
C17_BareYear ==
    (api = "scope" /\ pc = "done" /\ fin.form = "year" /\ fin.yw = 4)
    => /\ fout.ok /\ fout.type = "interval"
       /\ fout.start = YmdStr(4, fin.y, 1, 1)
       /\ fout.end = YmdStr(4, fin.y, 12, 31)
       /\ IsIsoDate(fout.start) /\ IsIsoDate(fout.end)

\* an as-of date expression that is none of a valid literal date, "current",
\* "last year" and a bare year
Unsupported(s) ==
    ~ \/ s.form = "ymd" /\ s.yw = 4 /\ s.m \in 1..12 /\ s.y >= 1
           /\ s.d >= 1 /\ s.d <= DaysIn(s.y, s.m)
      \/ s.form = "word" /\ s.w \in {"current", "last year"}
      \/ s.form = "year" /\ s.yw = 4

InvalidInput == {"ValueError", "unsupported_date_format"}

FailedInvalidInput ==
    /\ pc = "done"
    /\ HasRaised /\ outcome.error \in InvalidInput
    /\ visits.resolve_temporal_scope = 1

\* C18 as stated: orchestrated_answer with an unsupported as-of date ends
\* with InvalidInput raised in ResolveTemporalScope.
C18_AsStated ==
    (Orchestrated /\ Unsupported(as_of_date) /\ pc = "done") => FailedInvalidInput

\* C18 as amended: orchestrated_answer with an informational question and an
\* unsupported as-of date ends with InvalidInput raised in
\* ResolveTemporalScope, before any candidate search, version resolution,
\* paragraph retrieval or generation call; RetrieveEvidence is never entered
\* and the outcome is neither a NotFound nor a response.
C18_UnsupportedDateIsInvalidInput ==
    (Informational /\ Unsupported(as_of_date))
    => /\ calls = NoCalls
       /\ visits.retrieve_evidence = 0 /\ visits.respond = 0
       /\ pc \in {"start", "plan", "resolve_temporal_scope", "done"}
       /\ pc = "done" => FailedInvalidInput
       /\ ~HasResponse

\* a date-shaped string that is no calendar date was refused
C18_Witness ==
    /\ Informational
    /\ as_of_date = YmdStr(4, 2023, 2, 29)
    /\ FailedInvalidInput
    /\ visits.plan = 1

----------------------------------------------------------------------------
(* classify_request on its own *)

MaxQuestionLen == 4

QuestionTokens == {"Should", "should", "We", "we", "advise", "me", "sp", "?"}

QuestionTexts ==
    UNION {[1..n -> QuestionTokens] : n \in 0..MaxQuestionLen}

InitClassify ==
    /\ api = "classify"
    /\ IdleRequest
    /\ store = StoreC
    /\ pc = "call"
    /\ fin \in QuestionTexts
    /\ fout = <<>>

ClassifyCall ==
    /\ api = "classify" /\ pc = "call"
    /\ fout' = classify_request(fin)
    /\ pc' = "done"
    /\ UNCHANGED <<api, question, as_of_date, top_k, item_limit, credentials, store,
                   st, llm, calls, visits, outcome, fin>>

NextClassify == ClassifyCall

SpecClassify == InitClassify /\ [][NextClassify]_vars

\* the words of phrase stand in text from token i on: each word is one
\* lowercased token, consecutive words are parted by a non-empty run of
\* separators, and the last word ends the text or is followed by a separator
RECURSIVE PhraseFrom(_, _, _)
PhraseFrom(text, i, phrase) ==
    /\ phrase # <<>>
    /\ i <= Len(text)
    /\ Lower(text[i]) = Head(phrase)
    /\ IF Len(phrase) = 1
       THEN i = Len(text) \/ IsSeparator(text[i + 1])
       ELSE \E j \in (i + 2)..Len(text) :
                /\ \A k \in (i + 1)..(j - 1) : IsSeparator(text[k])
                /\ PhraseFrom(text, j, Tail(phrase))

\* phrase occurs in text as a contiguous run of whole words
Occurs(text, phrase) ==
    \E i \in 1..Len(text) :
        /\ i = 1 \/ IsSeparator(text[i - 1])
        /\ PhraseFrom(text, i, phrase)

InsertAt(text, i, t) == SubSeq(text, 1, i) \o <<t>> \o SubSeq(text, i + 1, Len(text))

Separators == {t \in QuestionTokens : IsSeparator(t)}
Punctuation == Separators \ {"sp"}

\* text with the case of one letter token changed
CaseVariants(text) ==
    UNION {{[text EXCEPT ![i] = u] :
               u \in {v \in QuestionTokens : Lower(v) = Lower(text[i])}} :
           i \in 1..Len(text)}

\* text with one separator replaced by another, or with one more separator
\* next to a separator, or before or after the whole text
SeparatorVariants(text) ==
    {[text EXCEPT ![i] = u] : i \in {k \in 1..Len(text) : IsSeparator(text[k])},
                              u \in Separators}
    \cup {InsertAt(text, i, u) :
            i \in {k \in 0..Len(text) :
                     \/ k = 0 \/ k = Len(text)
                     \/ IsSeparator(text[k]) \/ IsSeparator(text[k + 1])},
            u \in Separators}

\* text with one punctuation mark put in at any place
PunctuationVariants(text) ==
    {InsertAt(text, i, u) : i \in 0..Len(text), u \in Punctuation}

Classified == api = "classify" /\ pc = "done"

\* C19 as stated: the class is "advisory" exactly when a phrase of the
\* table occurs as a run of whole words, and a question that differs from
\* this one only in letter case or in punctuation gets the same class.
C19_AsStated ==
    Classified
    => /\ fout = "advisory" <=> \E phrase \in ADVISORY_PATTERNS : Occurs(fin, phrase)
       /\ \A other \in CaseVariants(fin) \cup PunctuationVariants(fin) :
              classify_request(other) = fout

\* C19 as amended: the class is "advisory" exactly when a phrase of the
\* table occurs in the text as a run of whole words, "informational"
\* otherwise; a question that differs from this one only in letter case, or
\* in which separators stand between, before and after the same words, gets
\* the same class.
C19_ClassifyRequest ==
    Classified
    => /\ fout \in {"advisory", "informational"}
       /\ fout = "advisory" <=> \E phrase \in ADVISORY_PATTERNS : Occurs(fin, phrase)
       /\ \A other \in CaseVariants(fin) \cup SeparatorVariants(fin) :
              classify_request(other) = fout

\* an advisory phrase in capitals, its words parted and followed by
\* punctuation, was classified
C19_Witness ==
    /\ Classified
    /\ fin = <<"Should", "?", "We", "?">>
    /\ fout = "advisory"

----------------------------------------------------------------------------
(* InMemoryRateLimiter *)

MaxClock == 4
MaxCalls == 5

\* limit_key of the middleware: method, route and client
LimitKeys == {"POST:/actions/answer:10.0.0.1", "POST:/actions/answer:10.0.0.2"}

\* settings.rate_limit_route_limits / rate_limit_requests_per_minute and
\* settings.rate_limit_window_seconds, both validated to be positive; a key
\* names its route, so every call on a key carries the same limit, and all
\* calls carry the same window
RouteLimits == {1, 2}
WindowSeconds == {1, 2}

\* while bucket and bucket[0] <= cutoff: bucket.popleft()
RECURSIVE PopExpired(_, _)
PopExpired(bucket, cutoff) ==
    IF bucket # <<>> /\ Head(bucket) <= cutoff
    THEN PopExpired(Tail(bucket), cutoff)
    ELSE bucket

\* allow with the loop that drops old entries left out
allow_without_expiry(requests, key, limit, window_seconds, now) ==
    LET bucket == requests[key]
    IN  IF Len(bucket) >= limit
        THEN [allowed |-> FALSE, requests |-> requests]
        ELSE [allowed |-> TRUE,
              requests |-> [requests EXCEPT ![key] = Append(bucket, now)]]

\* InMemoryRateLimiter.allow (rate_limit.py:18-27): the result and the
\* buckets it leaves
allow(requests, key, limit, window_seconds, now) ==
    LET bucket == PopExpired(requests[key], now - window_seconds)
    IN  IF Len(bucket) >= limit
        THEN [allowed |-> FALSE, requests |-> [requests EXCEPT ![key] = bucket]]
        ELSE [allowed |-> TRUE,
              requests |-> [requests EXCEPT ![key] = Append(bucket, now)]]

\* InMemoryRateLimiter.__init__ (rate_limit.py:15-16): no key has an entry
InitLimiter ==
    /\ api = "limiter"
    /\ IdleRequest
    /\ store = StoreC
    /\ pc = "serving"
    /\ fin \in [limit : [LimitKeys -> RouteLimits], window_seconds : WindowSeconds]
    /\ fout = [now |-> 0, requests |-> [key \in LimitKeys |-> <<>>], history |-> <<>>]

LimiterUnchanged ==
    UNCHANGED <<api, question, as_of_date, top_k, item_limit, credentials, store,
                pc, st, llm, calls, visits, outcome, fin>>

\* time.monotonic() moves on between two requests
MonotonicTick ==
    /\ api = "limiter"
    /\ fout.now < MaxClock
    /\ fout' = [fout EXCEPT !.now = @ + 1]
    /\ LimiterUnchanged

\* the middleware asks the limiter for one request (main.py:80); history
\* keeps what was asked and what was answered
AllowCall ==
    /\ api = "limiter"
    /\ Len(fout.history) < MaxCalls
    /\ \E key \in LimitKeys :
        LET r == allow(fout.requests, key, fin.limit[key], fin.window_seconds, fout.now)
        IN  fout' = [fout EXCEPT
                        !.requests = r.requests,
                        !.history = Append(@, [key |-> key, at |-> fout.now,
                                               allowed |-> r.allowed])]
    /\ LimiterUnchanged

NextLimiter == MonotonicTick \/ AllowCall

SpecLimiter == InitLimiter /\ [][NextLimiter]_vars

\* the calls before call n, on the key of call n, that returned True and lie
\* within the window_seconds before call n
AllowedInWindowBefore(history, n, window_seconds) ==
    {m \in 1..(n - 1) :
        /\ history[m].key = history[n].key
        /\ history[m].allowed
        /\ history[m].at > history[n].at - window_seconds}

\* the answers the limiter gives to the calls of history on one key, asked
\* of a limiter that sees no other key
RECURSIVE AnswersAlone(_, _, _, _, _)
AnswersAlone(history, key, limit, window_seconds, requests) ==
    IF history = <<>> THEN <<>>
    ELSE IF Head(history).key # key
    THEN AnswersAlone(Tail(history), key, limit, window_seconds, requests)
    ELSE LET r == allow(requests, key, limit, window_seconds, Head(history).at)
         IN  <<r.allowed>>
             \o AnswersAlone(Tail(history), key, limit, window_seconds, r.requests)

RECURSIVE AnswersOn(_, _)
AnswersOn(history, key) ==
    IF history = <<>> THEN <<>>
    ELSE (IF Head(history).key = key THEN <<Head(history).allowed>> ELSE <<>>)
         \o AnswersOn(Tail(history), key)

\* C20: InMemoryRateLimiter is a sliding-window limit per key.  A call
\* returns False exactly when limit earlier calls on the same key that
\* returned True lie within the window_seconds before it; no window of
\* window_seconds holds more than limit allowed calls of one key; and the
\* answers on a key are those a limiter that never saw another key would give.
C20_SlidingWindowPerKey ==
    api = "limiter"
    => /\ \A n \in 1..Len(fout.history) :
             LET inside == Cardinality(AllowedInWindowBefore(fout.history, n,
                                                             fin.window_seconds))
                 limit == fin.limit[fout.history[n].key]
             IN  /\ inside <= limit
                 /\ ~fout.history[n].allowed <=> inside = limit
       /\ \A key \in LimitKeys : \A t \in 0..MaxClock :
             Cardinality({m \in 1..Len(fout.history) :
                            /\ fout.history[m].key = key
                            /\ fout.history[m].allowed
                            /\ fout.history[m].at > t - fin.window_seconds
                            /\ fout.history[m].at <= t}) <= fin.limit[key]
       /\ \A key \in LimitKeys :
             AnswersOn(fout.history, key)
               = AnswersAlone(fout.history, key, fin.limit[key], fin.window_seconds,
                              [k \in LimitKeys |-> <<>>])

\* a key was refused at its limit while another key was served, and was
\* served again once its earlier calls had left the window
C20_Witness ==
    /\ api = "limiter"
    /\ \E a, b, c \in 1..Len(fout.history) :
        /\ a < b /\ b < c
        /\ fout.history[a].key = fout.history[c].key
        /\ fout.history[b].key # fout.history[a].key
        /\ ~fout.history[a].allowed
        /\ fout.history[b].allowed /\ fout.history[b].at = fout.history[a].at
        /\ fout.history[c].allowed

----------------------------------------------------------------------------
(* Routing, guardrail and bookkeeping of the orchestrator *)

C22_OutputGuardrail ==
    [][(Orchestrated /\ pc = "output_guardrail")
       => LET verification == st'.verification_results
          IN  /\ verification.guardrail_passed
                   <=> /\ st.verification_results.citations_valid
                       /\ Strip(st.draft_answer) # INSUFFICIENT_MESSAGE
                       /\ verification.faithfulness_score >= 9
              /\ {"guardrail_passed", "faithfulness_score"} \subseteq verification.keys
              /\ ~verification.guardrail_passed
                   => st'.draft_answer = INSUFFICIENT_MESSAGE
              /\ verification.guardrail_passed
                   => st'.draft_answer = st.draft_answer]_vars

\* OutputGuardrail let a cited draft through
C22_Witness ==
    /\ Orchestrated /\ pc = "respond"
    /\ st.verification_results.guardrail_passed
    /\ st.verification_results.faithfulness_score >= 9
    /\ st.draft_answer # INSUFFICIENT_MESSAGE

\* C23: VerifyCitations validates against the accumulated retrieved-id set.
\* When VerifyCitations is entered at attempt N, the retrieved_ids it reads
\* are the union of the paragraph ids retrieved in attempts 1..N.
C23_AccumulatedIds ==
    (Orchestrated /\ pc = "verify_citations")
    => SeqRange(st.verification_results.retrieved_ids)
         = RetrievedInRequest(st.retrieved_items)

\* C24: candidate selection clamps and never fails.  With a non-empty
\* candidate list of length m, the entry that attempt N adds to
\* retrieved_items holds the candidate of rank min(N, m); every attempt that
\* has come back has added its entry, also when N exceeds m, and no run
\* ends with an error other than those of the as-of date, the credentials
\* and the generation call.
C24_CandidateSelection ==
    LET items == search_items(store, question, item_limit)
        m == Len(items)
    IN  (Orchestrated /\ m > 0)
        => /\ \A n \in 1..Len(st.retrieved_items) :
                 LET entry == st.retrieved_items[n]
                     rank == IF entry.attempt <= m THEN entry.attempt ELSE m
                 IN  /\ entry.attempt = n
                     /\ entry.item = items[rank].urn
           /\ Len(st.retrieved_items) = st.retrieval_attempts
           /\ HasRaised => outcome.error \in
                  {"ValueError", "unsupported_date_format", "openai_api_key_missing",
                   "llm_timeout", "backend_error"}

\* a third attempt with a single candidate took that candidate again
C24_Witness ==
    /\ Orchestrated
    /\ Len(search_items(store, question, item_limit)) = 1
    /\ Len(st.retrieved_items) = 3
    /\ st.retrieved_items[3].item = st.retrieved_items[1].item

----------------------------------------------------------------------------
(* orchestrated_answer on an Expression with many paragraphs *)

\* one work, one open-ended version, seven paragraphs that both the vector
\* and the keyword query find
StoreWide ==
    [expressions |-> {
        [expression_id |-> "E1", work_id |-> "W1",
         valid_from |-> <<2020, 1, 1>>, valid_to |-> NULL]},
     articles |-> {[article_id |-> "A1", expression_id |-> "E1"]},
     paragraphs |-> {
        [paragraph_id |-> ParagraphOrder[n], article_id |-> "A1",
         score |-> 10 - n, keyword |-> TRUE] : n \in 1..Len(ParagraphOrder)},
     ranked |-> <<[kind |-> "work", id |-> "W1"]>>]

InitWiden ==
    /\ api = "orchestrated"
    /\ question = <<"Summarize", "sp", "MiCA">>
    /\ as_of_date = YmdStr(4, 2024, 2, 29)
    /\ top_k \in 1..MaxTopK
    /\ item_limit = 1
    /\ credentials = TRUE
    /\ store = StoreWide
    /\ pc = "start"
    /\ st = InitialState
    /\ llm = IdleLlm
    /\ calls = NoCalls
    /\ visits = NoVisits
    /\ outcome = Running
    /\ fin = <<>>
    /\ fout = <<>>

NextOrchestrated ==
    \/ OrchestratedStart
    \/ plan_node
    \/ resolve_temporal_node
    \/ retrieve_evidence_node
    \/ verify_citations_node
    \/ guardrail_node
    \/ respond_node
    \/ LlmReturns
    \/ LlmRetry
    \/ LlmGivesUp

SpecWiden == InitWiden /\ [][NextOrchestrated]_vars

\* C25: top_k widening.  On an Expression with enough paragraphs, attempt N
\* retrieves top_k + 2*(N-1) paragraphs: the caller's top_k on attempt 1,
\* two more on each later attempt, so strictly more from attempt to attempt
\* and never more than top_k + 4.
C25_TopKWidening ==
    store = StoreWide
    => /\ \A n \in 1..Len(st.retrieved_items) :
             LET entry == st.retrieved_items[n]
             IN  /\ Len(entry.paragraphs) = top_k + 2 * (entry.attempt - 1)
                 /\ Len(entry.paragraphs) <= top_k + 4
                 /\ n = 1 => Len(entry.paragraphs) = top_k
                 /\ n > 1 => Len(entry.paragraphs)
                               = Len(st.retrieved_items[n - 1].paragraphs) + 2
       /\ pc = "query_with_retry"
             => Len(llm.paragraphs) = top_k + 2 * st.retrieval_attempts

\* the third attempt retrieved four paragraphs more than the caller's top_k
C25_Witness ==
    /\ store = StoreWide
    /\ Len(st.retrieved_items) = 3
    /\ Len(st.retrieved_items[3].paragraphs) = top_k + 4
    /\ Len(st.retrieved_items[1].paragraphs) = top_k

----------------------------------------------------------------------------
(* query_with_retry under any setting of llm_max_retries *)

MaxLlmRetries == 5

\* attempts = max(1, settings.llm_max_retries + 1) (answering.py:179)
AttemptsOf(llm_max_retries) == Max(1, llm_max_retries + 1)

\* fin.llm_max_retries : the setting
\* fout.attempt        : attempt of the for loop
\* fout.outcomes       : how each call of query_engine.query ended
\* fout.sleeps         : the arguments of time.sleep, in milliseconds
\* fout.result         : none, returned, or the error raised
InitRetry ==
    /\ api = "retry"
    /\ IdleRequest
    /\ store = StoreC
    /\ pc = "call"
    /\ fin \in [llm_max_retries : -1..MaxLlmRetries]
    /\ fout = [attempt |-> 1, outcomes |-> <<>>, sleeps |-> <<>>, result |-> "none"]

RetryUnchanged ==
    UNCHANGED <<api, question, as_of_date, top_k, item_limit, credentials, store,
                st, llm, calls, visits, outcome, fin>>

\* future.result returns the response (answering.py:184)
RetrySucceeds ==
    /\ api = "retry" /\ pc = "call"
    /\ fout' = [fout EXCEPT !.outcomes = Append(@, "ok"), !.result = "returned"]
    /\ pc' = "done"
    /\ RetryUnchanged

\* the call times out or fails and an attempt is left: time.sleep, then the
\* next attempt (answering.py:185-191)
RetryFailsAndSleeps ==
    /\ api = "retry" /\ pc = "call"
    /\ fout.attempt < AttemptsOf(fin.llm_max_retries)
    /\ \E failure \in {"timeout", "error"} :
        fout' = [fout EXCEPT !.outcomes = Append(@, failure),
                             !.sleeps = Append(@, Backoff(fout.attempt)),
                             !.attempt = @ + 1]
    /\ UNCHANGED pc
    /\ RetryUnchanged

\* the last call times out or fails: RuntimeError("llm_timeout") or the
\* exception itself is raised (answering.py:186-187, 189-190)
RetryFailsAndRaises ==
    /\ api = "retry" /\ pc = "call"
    /\ fout.attempt >= AttemptsOf(fin.llm_max_retries)
    /\ \E failure \in {"timeout", "error"} :
        fout' = [fout EXCEPT !.outcomes = Append(@, failure),
                             !.result = IF failure = "timeout" THEN "llm_timeout"
                                        ELSE "error"]
    /\ pc' = "done"
    /\ RetryUnchanged

NextRetry == RetrySucceeds \/ RetryFailsAndSleeps \/ RetryFailsAndRaises

SpecRetry == InitRetry /\ [][NextRetry]_vars

\* C26: the retry of query_with_retry is bounded, with capped exponential
\* back-off.  One call invokes the generation capability at most
\* max(1, llm_max_retries + 1) times and stops at the first success; after
\* the n-th failed call that is not the last it sleeps
\* min(200 * 2^(n-1), 2000) milliseconds; after the last failed call it
\* raises without sleeping, llm_timeout for a timeout and the error itself
\* otherwise.
C26_BoundedRetry ==
    api = "retry"
    => LET limit == IF fin.llm_max_retries + 1 > 1 THEN fin.llm_max_retries + 1 ELSE 1
           made == Len(fout.outcomes)
           failed == {n \in 1..made : fout.outcomes[n] # "ok"}
       IN  /\ made <= limit
           /\ \A n \in 1..made : fout.outcomes[n] = "ok" => n = made /\ pc = "done"
           /\ Len(fout.sleeps) = Cardinality(failed \ {limit})
           /\ \A n \in 1..Len(fout.sleeps) :
                 fout.sleeps[n] = IF 200 * 2^(n - 1) < 2000 THEN 200 * 2^(n - 1)
                                  ELSE 2000
           /\ pc = "done"
                 => /\ made >= 1
                    /\ fout.outcomes[made] = "ok" => fout.result = "returned"
                    /\ fout.outcomes[made] = "timeout"
                          => made = limit /\ fout.result = "llm_timeout"
                    /\ fout.outcomes[made] = "error"
                          => made = limit /\ fout.result = "error"
           /\ pc # "done" => fout.result = "none" /\ made < limit

\* six calls failed, the fifth sleep was cut at the ceiling, and the last
\* time-out was raised as llm_timeout
C26_Witness ==
    /\ api = "retry" /\ pc = "done"
    /\ fin.llm_max_retries = 5
    /\ fout.sleeps = <<200, 400, 800, 1600, 2000>>
    /\ fout.result = "llm_timeout"

----------------------------------------------------------------------------
(* The provenance that search_text_units attaches to a paragraph *)

\* the Manifestations an Expression may have
ManifestationPool == {
    [source_url |-> "u1", content_type |-> "html", file_hash |-> "h1",
     published_date |-> <<2020, 1, 1>>],
    [source_url |-> "u2", content_type |-> "pdf", file_hash |-> "h2",
     published_date |-> <<2021, 6, 30>>],
    [source_url |-> "u3", content_type |-> "html", file_hash |-> "h3",
     published_date |-> <<2023, 1, 1>>],
    [source_url |-> "u4", content_type |-> "xml", file_hash |-> "h4",
     published_date |-> <<2022, 3, 1>>] }

NoManifestation ==
    [source_url |-> NULL, content_type |-> NULL, file_hash |-> NULL,
     published_date |-> NULL]

\* E1 holds p1, which the vector query finds, and p2, which only the keyword
\* query finds; the paragraphs of E9 fill the rest of the index
StoreProvenance ==
    [expressions |-> {
        [expression_id |-> "E1", work_id |-> "W1",
         valid_from |-> <<2020, 1, 1>>, valid_to |-> NULL],
        [expression_id |-> "E9", work_id |-> "W9",
         valid_from |-> <<2020, 1, 1>>, valid_to |-> NULL]},
     articles |-> {[article_id |-> "A1", expression_id |-> "E1"],
                   [article_id |-> "A9", expression_id |-> "E9"]},
     paragraphs |-> {
        [paragraph_id |-> "p1", article_id |-> "A1", score |-> 9, keyword |-> FALSE],
        [paragraph_id |-> "p2", article_id |-> "A1", score |-> 1, keyword |-> TRUE]}
      \cup {[paragraph_id |-> ParagraphOrder[n], article_id |-> "A9",
             score |-> 11 - n, keyword |-> FALSE] : n \in 3..Len(ParagraphOrder)},
     ranked |-> <<[kind |-> "work", id |-> "W1"]>>]

\* OPTIONAL MATCH (e)-[:HAS_MANIFESTATION]->(m) ... collect(m)[0]
\* (actions.py:114-115, 154-155): the first of the collected Manifestations;
\* the query gives them no order, so any of them can come first, and null
\* when there is none
CollectFirst(manifestations) ==
    IF manifestations = {} THEN {NoManifestation} ELSE manifestations

\* the provenance columns of a row (actions.py:118-120, 158-160) as
\* normalize_paragraph_results copies them (actions.py:185-188)
WithProvenance(row, m) ==
    [paragraph_id |-> row.paragraph_id, retrieval_mode |-> row.retrieval_mode,
     source_url |-> m.source_url, content_type |-> m.content_type,
     file_hash |-> m.file_hash, published_date |-> m.published_date]

InitProvenance ==
    /\ api = "provenance"
    /\ IdleRequest
    /\ store = StoreProvenance
    /\ pc = "call"
    /\ fin \in [manifestations : SUBSET ManifestationPool, top_k : 1..MaxTopK]
    /\ fout = <<>>

\* search_text_units("E1", "w", top_k): every row of the vector and of the
\* keyword query carries the Manifestation its collect(m)[0] gave
ProvenanceCall ==
    /\ api = "provenance" /\ pc = "call"
    /\ LET rows == search_text_units(store, "E1", <<"w">>, fin.top_k)
       IN  \E first \in [1..Len(rows) -> CollectFirst(fin.manifestations)] :
               fout' = [n \in 1..Len(rows) |-> WithProvenance(rows[n], first[n])]
    /\ pc' = "done"
    /\ UNCHANGED <<api, question, as_of_date, top_k, item_limit, credentials, store,
                   st, llm, calls, visits, outcome, fin>>

NextProvenance == ProvenanceCall

SpecProvenance == InitProvenance /\ [][NextProvenance]_vars

\* the Manifestation with the latest published_date
Latest(manifestations) ==
    CHOOSE m \in manifestations :
        \A other \in manifestations \ {m} :
            DayNumber(other.published_date) < DayNumber(m.published_date)

\* C27: provenance comes from the most recent Manifestation.  For an
\* Expression with Manifestations, every paragraph that retrieval returns,
\* whether the vector or the keyword query found it, carries the
\* source_url, content_type, hash and published_date of the Manifestation
\* with the latest published_date.
C27_LatestProvenance ==
    (api = "provenance" /\ pc = "done" /\ fin.manifestations # {})
    => \A n \in 1..Len(fout) :
           LET m == Latest(fin.manifestations)
           IN  /\ fout[n].source_url = m.source_url
               /\ fout[n].content_type = m.content_type
               /\ fout[n].file_hash = m.file_hash
               /\ fout[n].published_date = m.published_date

----------------------------------------------------------------------------
(* Respond and the bookkeeping of verification_results *)

\* C28: Respond forces the sentinel only when the guardrail did not pass or
\* 3 attempts were exhausted without valid citations.  The answer Respond
\* returns is the draft OutputGuardrail left, in every run; it is the
\* sentinel only if guardrail_passed is false; and a draft of the third
\* attempt with valid citations that passed the guardrail is returned as it
\* is, with the citations it holds.
C28_RespondKeepsDraft ==
    [][(Orchestrated /\ pc = "respond")
       => LET response == outcome'.response
              verification == st.verification_results
          IN  /\ outcome'.kind = "returned"
              /\ response.answer = st.draft_answer
              /\ response.answer = INSUFFICIENT_MESSAGE
                    => ~verification.guardrail_passed
              /\ (st.retrieval_attempts = 3 /\ verification.citations_valid
                                            /\ verification.guardrail_passed)
                    => /\ response.answer # INSUFFICIENT_MESSAGE
                       /\ response.citations # <<>>
                       /\ response.citations = verification.extracted_citations]_vars

\* the draft of the third attempt was returned with its citations
C28_Witness ==
    /\ Responded
    /\ st.retrieval_attempts = 3
    /\ visits.retrieve_evidence = 3
    /\ outcome.response.answer # INSUFFICIENT_MESSAGE
    /\ outcome.response.citations # <<>>

\* Respond returned an answer that is not the sentinel
AnsweredFromEvidence ==
    Responded /\ outcome.response.answer # INSUFFICIENT_MESSAGE

\* C29: evidence bookkeeping at Respond.  Whenever the returned answer is
\* not the sentinel, verification_results.retrieved_ids is the list of
\* paragraph ids of the last entry of retrieved_items, the attempt number of
\* that entry is the attempt counter, and its expression_id is the
\* Expression that is valid at the resolved date for the item of that entry.
C29_EvidenceBookkeeping ==
    AnsweredFromEvidence
    => LET response == outcome.response
           items == response.retrieved_items
       IN  /\ items # <<>>
           /\ LET last == items[Len(items)]
                  version == get_valid_version(store, last.item, st.resolved_date)
              IN  /\ response.verification_results.retrieved_ids = last.paragraphs
                  /\ last.paragraphs # <<>>
                  /\ last.attempt = st.retrieval_attempts
                  /\ version.ok
                  /\ last.expression_id = version.record.expression_id
                  /\ \A n \in 1..Len(response.citations) :
                        \E k \in 1..Len(last.paragraphs) :
                            response.citations[n] = last.paragraphs[k]

\* the answer came from the second attempt, which read another Expression
\* than the first
C29_Witness ==
    /\ AnsweredFromEvidence
    /\ Len(st.retrieved_items) = 2
    /\ st.retrieved_items[1].expression_id # st.retrieved_items[2].expression_id
    /\ st.retrieved_items[1].paragraphs # <<>>

\* C30: the failure reason matches the outcome.  Whenever orchestrated_answer
\* returns an answer that is not the sentinel, verification_results holds no
\* "reason" key.
C30_NoReasonOnSuccess ==
    AnsweredFromEvidence
    => "reason" \notin outcome.response.verification_results.keys

====
